---- MODULE Spec2Model ----
(***************************************************************************)
(* A model of the same-domain crawler of src/lib/crawler.ts together with  *)
(* the in-memory page store it writes to.                                  *)
(*                                                                         *)
(* Strings are sequences of tokens: a URL such as https://example.com/a    *)
(* is <<"https:", "//", "example.com", "/", "a">>.  String operations of   *)
(* the source (startsWith, includes, a regular expression anchored at the  *)
(* end, new URL(..).hostname, new URL(href, base).toString()) are          *)
(* operators on token sequences, so a URL's text and its parsed parts are  *)
(* different things, as they are in the source.                            *)
(*                                                                         *)
(* One run of crawlWebsite is a sequential process whose position is pc;   *)
(* every await of the source is a step boundary.  The network is the       *)
(* environment: each fetch attempt nondeterministically fails or returns a *)
(* response, and the body of a response is drawn from the pages the        *)
(* current world can serve.                                                *)
(***************************************************************************)
EXTENDS Integers, Sequences, FiniteSets, TLC

-----------------------------------------------------------------------------
(* Bounds of the model *)

\* longest anchor list of a freely chosen page of the "any" world
MaxLinks == 2
\* failed fetch attempts / non-ok responses the network may produce in a run
\* of the "any" world
MaxFaults == 3
\* failed fetch attempts the network may produce in a run of the "tree" world
MaxTreeFaults == 0

\* calls of the recrawl route in one behaviour
MaxRecrawls == 2

-----------------------------------------------------------------------------
(* Program constants *)

\* discoverUrls stops once this many URLs are discovered
MaxDiscovered == 50
\* links.slice(0, 10)
MaxLinksPerPage == 10
\* fetchWithRetry(currentUrl, 2) in discoverUrls
DiscoverRetries == 2
\* fetchWithRetry(url, 3) in crawlSinglePage
CrawlRetries == 3
\* title.substring(0, 200)
MaxTitleLen == 200

-----------------------------------------------------------------------------
(* Strings as token sequences *)

Min(a, b) == IF a <= b THEN a ELSE b

\* s.startsWith(pre)
StartsWith(s, pre) ==
    /\ Len(pre) <= Len(s)
    /\ SubSeq(s, 1, Len(pre)) = pre

\* s.includes(sub)
Includes(s, sub) ==
    \E i \in 1..(Len(s) - Len(sub) + 1) : SubSeq(s, i, i + Len(sub) - 1) = sub

\* s.substring(0, n)
Substring0(s, n) == SubSeq(s, 1, Min(n, Len(s)))

\* the elements of a sequence
Range(s) == {s[i] : i \in 1..Len(s)}

\* tokens whose text starts with the four characters "http"
HttpPrefixed == {"http:", "https:", "http-guide"}

\* href.startsWith("http")
StartsWithHttp(s) == Len(s) > 0 /\ s[1] \in HttpPrefixed

\* scheme tokens the URL parser accepts as the start of an absolute URL
Schemes == {"http:", "https:", "mailto:", "tel:"}

\* tokens that end the authority part of a URL
AuthorityEnd == {"/", "?q=1", "#"}

\* tokens that end the path part of a URL
PathEnd == {"?q=1", "#"}

\* new URL(s) does not throw
IsValidUrl(s) ==
    /\ Len(s) >= 1
    /\ s[1] \in Schemes
    /\ s[1] \in HttpPrefixed => (Len(s) >= 3 /\ s[2] = "//" /\ s[3] \notin AuthorityEnd)

\* index of the first token after the authority of an http(s) URL
AuthorityStop(u) ==
    LET stops == {i \in 3..Len(u) : u[i] \in AuthorityEnd}
    IN  IF stops = {} THEN Len(u) + 1
        ELSE CHOOSE i \in stops : \A j \in stops : i <= j

\* new URL(u).protocol
Protocol(u) == u[1]

\* new URL(u).hostname (and .host: the model has no ports)
Hostname(u) ==
    IF u[1] \in HttpPrefixed THEN SubSeq(u, 3, AuthorityStop(u) - 1) ELSE <<>>

\* new URL(href, base).toString() for an href that matched none of the
\* string prefixes; <<>> stands for "the constructor threw"
ResolveRelative(href, base) ==
    IF href[1] \in Schemes
    THEN IF IsValidUrl(href) THEN href ELSE <<>>
    ELSE
        LET ends  == {i \in 3..Len(base) : base[i] \in PathEnd}
            stop  == IF ends = {} THEN Len(base) + 1
                     ELSE CHOOSE i \in ends : \A j \in ends : i <= j
            path  == SubSeq(base, 1, stop - 1)
            slash == {i \in AuthorityStop(base)..Len(path) : path[i] = "/"}
            dir   == IF slash = {} THEN path \o <<"/">>
                     ELSE SubSeq(path, 1,
                                 CHOOSE i \in slash : \A j \in slash : j <= i)
        IN  IF href[1] = "#" THEN path \o href ELSE dir \o href

-----------------------------------------------------------------------------
(* The web the crawler runs against *)

SeedExample == <<"https:", "//", "example.com", "/">>

\* seeds whose hostname contains a deny-list entry
BlockedSeeds ==
    { <<"https:", "//", "www.", "google.com", "/">>,
      <<"http:", "//", "linkedin.com", "/", "in">>,
      <<"https:", "//", "my", "facebook.com", ".example.org", "/">> }

\* a seed on the site under crawl whose path names a site fetchWithRetry
\* knows as blocking
SeedPathNamesSite == <<"https:", "//", "example.com", "/", "twitter.com">>

\* a string no URL parser accepts: crawlWebsite is exported, and only the
\* crawl route checks the URL before the call
SeedInvalid == <<"https:", "//">>

\* start URLs: as the crawl route hands them over, parsed and serialised, and
\* the invalid one
Seeds == {SeedExample, SeedPathNamesSite, SeedInvalid} \cup BlockedSeeds

\* anchors a freely chosen page may carry
Hrefs ==
    { <<"/">>,
      <<"/", "a">>,
      <<"b">>,
      <<"https:", "//", "example.com", "/", "a">>,
      <<"https:", "//", "other.com", "/">>,
      <<"//", "example.com", "/", "b">>,
      <<"/", "a", "#", "f">>,
      <<"/", "a", ".pdf">>,
      <<"mailto:", "x">> }

RECURSIVE SeqsUpTo(_, _)
\* all sequences over S of length at most n
SeqsUpTo(S, n) ==
    IF n = 0 THEN {<<>>}
    ELSE LET shorter == SeqsUpTo(S, n - 1)
         IN  shorter \cup {Append(t, x) : t \in shorter, x \in S}

\* a page with more accepted anchors than one page may enqueue
LongPage ==
    [i \in 1..(MaxLinksPerPage + 1) |->
        IF i <= MaxLinksPerPage THEN <<"/", "a">> ELSE <<"b">>]

\* the anchor lists of the "any" world
AnyPages == SeqsUpTo(Hrefs, MaxLinks) \cup {LongPage}

\* anchors of the pages of the "scan" world: those of Hrefs and more forms of
\* link the scan has to tell apart
ScanHrefs ==
    Hrefs \cup
    { <<"c">>,
      <<"http-guide">>,
      <<"http:", "//", "example.com", "/", "c">>,
      <<"//", "other.com", "/", "c">>,
      <<"/", "a", ".PDF">>,
      <<"c", ".Jpg">>,
      <<"/", "a", ".pdf", "?q=1">>,
      <<"/", "c", "?q=1">>,
      <<"tel:", "1">> }

\* the anchor lists of the "scan" world
ScanPages == SeqsUpTo(ScanHrefs, MaxLinks) \cup {LongPage}

\* a page below the root of the site, reached from the seed
DeepPage == <<"https:", "//", "example.com", "/", "d", "/", "e">>

\* the page the "scan" world serves for the URL under scan
VARIABLE scanned

\* every page of the "tree" world links to two children (one of them twice)
\* and back to the root: an unbounded site with cycles
TreePage == << <<"a", "/">>, <<"b", "/">>, <<"a", "/">>, <<"/">> >>

\* the seed page of the "pair" world links twice to the one other page of
\* the site, which has no links
PairPage == << <<"/", "a">>, <<"/", "a">> >>

\* documents as the parser sees them: the candidates for the title and the
\* text extractMainContent yields, a sequence of whitespace-free words
Docs ==
    { [title |-> <<>>, h1 |-> <<>>, ogTitle |-> <<>>, metaTitle |-> <<>>,
       content |-> <<>>],
      [title |-> <<"Home">>, h1 |-> <<"Welcome">>, ogTitle |-> <<>>,
       metaTitle |-> <<>>, content |-> <<"Hello", " ", "world", ".">>] }

\* a text of n characters c
Chars(n, c) == [i \in 1..n |-> c]

\* title candidates of the pages of the "doc" world, character by character:
\* the text of <title>, the text of the first <h1>, and the content
\* attributes of the og:title and the title meta tags (<<>> where the
\* element is missing or empty)
DocTitles ==
    [title     : {<<>>, <<" ">>, <<" ", "t", " ">>, <<" ">> \o Chars(201, "t")},
     h1        : {<<>>, <<" ", " ">>, <<"h">>},
     ogTitle   : {<<>>, <<" ">>, <<"o">>, Chars(200, "o"), Chars(201, "o")},
     metaTitle : {<<>>, <<"m">>}]

\* texts extractMainContent yields in the "doc" world, character by
\* character: fragments at and around the 20 character filter, more than
\* three long fragments, runs of terminators, and joined texts at and around
\* 300 characters
DocContents ==
    { <<>>,
      Chars(5, "a") \o <<".">>,
      Chars(20, "a") \o <<".">>,
      Chars(21, "a"),
      <<" ">> \o Chars(20, "a") \o <<" ", ".">>,
      <<".", " ">> \o Chars(21, "a") \o <<"!", "?", " ">> \o Chars(3, "b")
          \o <<".", " ">> \o Chars(22, "c") \o <<"?">>,
      Chars(21, "a") \o <<".", " ">> \o Chars(22, "b") \o <<"!", " ">>
          \o Chars(23, "c") \o <<"?", "!", " ">> \o Chars(24, "d") \o <<".">>,
      Chars(99, "a") \o <<".">> \o Chars(99, "b") \o <<".">>
          \o Chars(98, "c") \o <<".">>,
      Chars(99, "a") \o <<".">> \o Chars(99, "b") \o <<".">>
          \o Chars(99, "c") \o <<".">>,
      Chars(120, "a") \o <<"!">> \o Chars(120, "b") \o <<"?">>
          \o Chars(120, "c") \o <<".">> \o Chars(30, "d"),
      Chars(310, "a") }

\* the documents of the "doc" world
DocPages ==
    {[title |-> t.title, h1 |-> t.h1, ogTitle |-> t.ogTitle,
      metaTitle |-> t.metaTitle, content |-> <<"a">>] : t \in DocTitles}
    \cup {[title |-> <<"t">>, h1 |-> <<>>, ogTitle |-> <<>>,
            metaTitle |-> <<>>, content |-> c] : c \in DocContents}

\* the document the "doc" world serves for the URL under crawl
VARIABLE parsed

\* history: the last call of the storage module, with its arguments and
\* what it returned
VARIABLE storeCall

\* the calls of the recrawl route: pending holds the id and the URL of every
\* crawlSinglePage that has not returned yet, calls counts the requests
VARIABLE recrawl

\* the document of every page of the "tree" world
TreeDoc ==
    [title |-> <<"Node">>, h1 |-> <<>>, ogTitle |-> <<>>, metaTitle |-> <<>>,
     content |-> <<"Leaf">>]

\* what response.text() followed by cheerio.load can yield for a URL, as
\* discoverUrls reads it: the href attributes of $("a[href]"), in order
Anchors(w, url) ==
    IF w = "tree" THEN {TreePage}
    ELSE IF w = "scan" THEN {scanned}
    ELSE IF w = "pair" THEN (IF url = SeedExample THEN {PairPage} ELSE {<<>>})
    ELSE IF url = SeedPathNamesSite THEN {<<>>}
    ELSE AnyPages

\* the same, as crawlSinglePage reads it
Documents(w, url) ==
    IF w \in {"tree", "pair"} THEN {TreeDoc}
    ELSE IF w = "doc" THEN {parsed}
    ELSE Docs

\* non-ok statuses a server may answer with
ErrorStatuses ==
    { [status |-> "404", statusText |-> "Not Found"],
      [status |-> "500", statusText |-> "Internal Server Error"] }

\* errors fetch() rejects with: a network failure, or the abort of the
\* 15 second timer
NetworkErrors == { <<"fetch failed">>, <<"This operation was aborted">> }

\* the rejection of response.text()
BodyError == <<"terminated">>

-----------------------------------------------------------------------------
(* discoverUrls: pure parts *)

blockedDomains ==
    {"google.com", "facebook.com", "twitter.com", "instagram.com", "linkedin.com"}

\* variant: the deny-list compared with === instead of includes
IsBlockedDomainExact(baseDomain) ==
    \E domain \in blockedDomains : baseDomain = <<domain>>

\* blockedDomains.some((domain) => baseDomain.includes(domain))
IsBlockedDomain(baseDomain) ==
    \E domain \in blockedDomains : Includes(baseDomain, <<domain>>)

BlockedDomainMessage(baseDomain) ==
    <<"The domain ">> \o baseDomain \o <<" typically blocks automated crawling.">>

NonHtmlExt ==
    {".pdf", ".jpg", ".jpeg", ".png", ".gif", ".zip", ".exe", ".doc", ".docx",
     ".xls", ".xlsx", ".ppt", ".pptx", ".mp4", ".mp3", ".avi", ".mov"}

\* the /i flag of the extension pattern
LowerExt(t) ==
    CASE t = ".PDF" -> ".pdf"
      [] t = ".Jpg" -> ".jpg"
      [] OTHER -> t

\* absoluteUrl.match(/\.(pdf|...|mov)$/i)
MatchesNonHtmlExt(u) == Len(u) > 0 /\ LowerExt(u[Len(u)]) \in NonHtmlExt

\* the four normalisation branches; <<>> when new URL(href, currentUrl) throws
AbsoluteUrl(href, baseUrl, current) ==
    IF StartsWithHttp(href) THEN href
    ELSE IF StartsWith(href, <<"//">>) THEN <<Protocol(baseUrl)>> \o href
    ELSE IF StartsWith(href, <<"/">>)
         THEN <<Protocol(baseUrl), "//">> \o Hostname(baseUrl) \o href
    ELSE ResolveRelative(href, current)

\* variant: links to other hosts and links with a fragment are taken too
AcceptLinkAnyHost(absoluteUrl, baseDomain, visited, queue) ==
    /\ IsValidUrl(absoluteUrl)
    /\ absoluteUrl \notin visited
    /\ absoluteUrl \notin Range(queue)
    /\ ~MatchesNonHtmlExt(absoluteUrl)
    /\ ~Includes(absoluteUrl, <<"mailto:">>)
    /\ ~Includes(absoluteUrl, <<"tel:">>)

\* the condition under which links.push(absoluteUrl) runs
AcceptLink(absoluteUrl, baseDomain, visited, queue) ==
    /\ IsValidUrl(absoluteUrl)
    /\ Hostname(absoluteUrl) = baseDomain
    /\ absoluteUrl \notin visited
    /\ absoluteUrl \notin Range(queue)
    /\ ~Includes(absoluteUrl, <<"#">>)
    /\ ~MatchesNonHtmlExt(absoluteUrl)
    /\ ~Includes(absoluteUrl, <<"mailto:">>)
    /\ ~Includes(absoluteUrl, <<"tel:">>)

\* the links array after the $("a[href]").each(...) scan of one page
ScanLinks(hrefs, baseUrl, current, visited, queue) ==
    LET abs == [i \in 1..Len(hrefs) |->
                   IF hrefs[i] = <<>> THEN <<>>
                   ELSE AbsoluteUrl(hrefs[i], baseUrl, current)]
        Keep(u) == u # <<>> /\ AcceptLink(u, Hostname(baseUrl), visited, queue)
    IN  SelectSeq(abs, Keep)

\* variant: every accepted link of the page is queued
EnqueueWithoutLimit(queue, links) == queue \o links

\* variant: the links are put in front of the queue (depth first)
EnqueueInFront(queue, links) == Substring0(links, MaxLinksPerPage) \o queue

\* urlsToVisit.push(...links.slice(0, 10))
Enqueue(queue, links) == queue \o Substring0(links, MaxLinksPerPage)

\* variant: the cap compared with <= instead of <
DiscoverContinuesOffByOne(queue, discovered) ==
    Len(queue) > 0 /\ Len(discovered) <= MaxDiscovered

\* the loop condition of discoverUrls
DiscoverContinues(queue, discovered) ==
    Len(queue) > 0 /\ Len(discovered) < MaxDiscovered

\* variant: the frontier starts empty
InitialFrontierEmpty(url) == <<>>

\* variant: the frontier seeded with the origin of the start URL
InitialFrontierOrigin(url) == << <<Protocol(url), "//">> \o Hostname(url) >>

\* urlsToVisit as discoverUrls creates it
InitialFrontier(url) == <<url>>

\* variant: the visited check at the loop head left out
AlreadyVisitedNever(url, visited) == FALSE

\* if (visitedUrls.has(currentUrl)) continue
AlreadyVisited(url, visited) == url \in visited

-----------------------------------------------------------------------------
(* crawlSinglePage: pure parts *)

\* text tokens: words, the blank " " and the sentence terminators
Terminators == {".", "!", "?"}

\* number of characters of a token
CharLen(t) ==
    CASE t = "Hello" -> 5
      [] t = "world" -> 5
      [] t = "Leaf" -> 4
      [] t = "Untitled Page" -> 13
      [] OTHER -> 1

RECURSIVE TextLen(_)
\* s.length, summed by halves
TextLen(s) ==
    IF s = <<>> THEN 0
    ELSE IF Len(s) = 1 THEN CharLen(s[1])
    ELSE LET half == Len(s) \div 2
         IN  TextLen(SubSeq(s, 1, half)) + TextLen(SubSeq(s, half + 1, Len(s)))

\* s without its leading blanks
TrimLeft(s) ==
    IF \A i \in 1..Len(s) : s[i] = " " THEN <<>>
    ELSE LET first == CHOOSE i \in 1..Len(s) :
                         s[i] # " " /\ \A j \in 1..(i - 1) : s[j] = " "
         IN  SubSeq(s, first, Len(s))

\* s without its trailing blanks
TrimRight(s) ==
    IF \A i \in 1..Len(s) : s[i] = " " THEN <<>>
    ELSE LET last == CHOOSE i \in 1..Len(s) :
                        s[i] # " " /\ \A j \in (i + 1)..Len(s) : s[j] = " "
         IN  SubSeq(s, 1, last)

\* s.trim()
Trim(s) == TrimLeft(TrimRight(s))

\* s.substring(0, n): the tokens that fit into n characters; a token cut in
\* the middle is kept as the marker of its head
CharPrefix(s, n) ==
    LET fits == CHOOSE k \in 0..Min(Len(s), IF n > 0 THEN n ELSE 0) :
                    /\ TextLen(SubSeq(s, 1, k)) <= n
                    /\ k < Len(s) => TextLen(SubSeq(s, 1, k + 1)) > n
    IN  IF fits < Len(s) /\ TextLen(SubSeq(s, 1, fits)) < n
        THEN SubSeq(s, 1, fits) \o <<"(cut)">>
        ELSE SubSeq(s, 1, fits)

RECURSIVE SplitOn(_)
\* s.split(/[.!?]+/): the text before the first run of terminators, then the
\* split of the text behind that run
SplitOn(s) ==
    IF \A i \in 1..Len(s) : s[i] \notin Terminators THEN <<s>>
    ELSE LET stop == CHOOSE i \in 1..Len(s) :
                        /\ s[i] \in Terminators
                        /\ \A j \in 1..(i - 1) : s[j] \notin Terminators
             next == CHOOSE i \in (stop + 1)..(Len(s) + 1) :
                        /\ i <= Len(s) => s[i] \notin Terminators
                        /\ \A j \in (stop + 1)..(i - 1) : s[j] \in Terminators
         IN  <<SubSeq(s, 1, stop - 1)>> \o SplitOn(SubSeq(s, next, Len(s)))

RECURSIVE Join(_, _)
\* parts.join(sep)
Join(parts, sep) ==
    IF parts = <<>> THEN <<>>
    ELSE IF Len(parts) = 1 THEN parts[1]
    ELSE parts[1] \o sep \o Join(Tail(parts), sep)

\* variant: every long fragment goes into the summary
GenerateSummaryAllFragments(content) ==
    LET Long(f)   == TextLen(Trim(f)) > 20
        sentences == SelectSeq(SplitOn(content), Long)
        summary   == Trim(Join(sentences, <<".", " ">>))
    IN  IF TextLen(summary) > 300
        THEN CharPrefix(summary, 300) \o <<"...">>
        ELSE summary \o <<".">>

\* generateSummary(content)
GenerateSummary(content) ==
    LET Long(f)   == TextLen(Trim(f)) > 20
        sentences == SelectSeq(SplitOn(content), Long)
        summary   == Trim(Join(Substring0(sentences, 3), <<".", " ">>))
    IN  IF TextLen(summary) > 300
        THEN CharPrefix(summary, 300) \o <<"...">>
        ELSE summary \o <<".">>

\* content.split(/\s+/).filter((word) => word.length > 0).length
WordCount(content) ==
    Cardinality({i \in 1..Len(content) :
                    content[i] # " " /\ (i = 1 \/ content[i - 1] = " ")})

\* variant: the title meta tag is preferred to og:title
ResolveTitleMetaFirst(doc) ==
    IF Trim(doc.title) # <<>> THEN Trim(doc.title)
    ELSE IF Trim(doc.h1) # <<>> THEN Trim(doc.h1)
    ELSE IF doc.metaTitle # <<>> THEN doc.metaTitle
    ELSE IF doc.ogTitle # <<>> THEN doc.ogTitle
    ELSE <<"Untitled Page">>

\* the title cascade of crawlSinglePage, before truncation
ResolveTitle(doc) ==
    IF Trim(doc.title) # <<>> THEN Trim(doc.title)
    ELSE IF Trim(doc.h1) # <<>> THEN Trim(doc.h1)
    ELSE IF doc.ogTitle # <<>> THEN doc.ogTitle
    ELSE IF doc.metaTitle # <<>> THEN doc.metaTitle
    ELSE <<"Untitled Page">>

\* new Date().toISOString()
Timestamp == <<"2024-01-01T00:00:00.000Z">>

\* the record built on the success path
CompletedPage(id, url, doc) ==
    [id |-> id, url |-> url,
     title |-> Substring0(ResolveTitle(doc), MaxTitleLen),
     content |-> doc.content,
     summary |-> GenerateSummary(doc.content),
     wordCount |-> WordCount(doc.content),
     status |-> "completed",
     crawledAt |-> Timestamp]

\* variant: the catch block forgets the timestamp
ErrorPageNoTimestamp(id, url, message) ==
    [id |-> id, url |-> url, title |-> <<"Error">>, content |-> <<>>,
     status |-> "error", error |-> message, wordCount |-> 0]

\* the record built in a catch block
ErrorPage(id, url, message) ==
    [id |-> id, url |-> url, title |-> <<"Error">>, content |-> <<>>,
     status |-> "error", error |-> message, crawledAt |-> Timestamp,
     wordCount |-> 0]

\* variant: the message names the status code only
HttpErrorMessageCodeOnly(response) == <<"HTTP ", response.status>>

\* `HTTP ${response.status}: ${response.statusText}`
HttpErrorMessage(response) ==
    <<"HTTP ", response.status, ": ", response.statusText>>

\* the value a call of fetchWithRetry left nothing in
NoResult == [type |-> "none"]

\* the marker of a body whose read was rejected
BodyFailed == [failed |-> TRUE]

\* the error crawlSinglePage catches, <<>> if none: the rejection of
\* fetchWithRetry, the non-ok status, or the rejection of response.text()
PageFailure(res, body) ==
    IF res.type = "error" THEN res.error
    ELSE IF ~res.response.ok THEN HttpErrorMessage(res.response)
    ELSE IF body = BodyFailed THEN BodyError
    ELSE <<>>

\* variant: a rejected fetchWithRetry is passed on to the caller
SinglePageOutcomeRethrow(id, url, res, body) ==
    LET failure == PageFailure(res, body)
        page    == IF failure # <<>> THEN ErrorPage(id, url, failure)
                   ELSE CompletedPage(id, url, body)
    IN  IF res.type = "error"
        THEN [kind |-> "throw", error |-> res.error, writes |-> <<>>]
        ELSE [kind |-> "return", page |-> page, writes |-> <<page>>]

\* variant: the catch block stores its record twice
SinglePageOutcomeStoredTwice(id, url, res, body) ==
    LET failure == PageFailure(res, body)
        page    == IF failure # <<>> THEN ErrorPage(id, url, failure)
                   ELSE CompletedPage(id, url, body)
    IN  [kind |-> "return", page |-> page,
         writes |-> IF failure # <<>> THEN <<page, page>> ELSE <<page>>]

\* variant: the catch block returns its record without storing it
SinglePageOutcomeUnstoredError(id, url, res, body) ==
    LET failure == PageFailure(res, body)
        page    == IF failure # <<>> THEN ErrorPage(id, url, failure)
                   ELSE CompletedPage(id, url, body)
    IN  [kind |-> "return", page |-> page,
         writes |-> IF failure # <<>> THEN <<>> ELSE <<page>>]

\* crawlSinglePage from the point where fetchWithRetry has settled: what it
\* hands to its caller and the records it passes to storePage on the way
SinglePageOutcome(id, url, res, body) ==
    LET failure == PageFailure(res, body)
        page    == IF failure # <<>> THEN ErrorPage(id, url, failure)
                   ELSE CompletedPage(id, url, body)
    IN  [kind |-> "return", page |-> page, writes |-> <<page>>]

-----------------------------------------------------------------------------
(* The page store *)

\* pages.set(page.id, page)
StorePage(store, page) ==
    [i \in DOMAIN store \cup {page.id} |->
        IF i = page.id THEN page ELSE store[i]]

\* the result of getPageById for an id that is not in the store
Null == [null |-> TRUE]

\* pages.get(id) || null
GetPageById(store, id) == IF id \in DOMAIN store THEN store[id] ELSE Null

\* pages.delete(id)
DeletePage(store, id) == [i \in DOMAIN store \ {id} |-> store[i]]

\* { ...existing, ...updates }
Merge(existing, updates) ==
    [f \in DOMAIN existing \cup DOMAIN updates |->
        IF f \in DOMAIN updates THEN updates[f] ELSE existing[f]]

\* variant: the updates take the place of the record
UpdatePageReplace(store, id, updates) ==
    IF id \in DOMAIN store
    THEN [i \in DOMAIN store |-> IF i = id THEN updates ELSE store[i]]
    ELSE store

\* updatePage(id, updates)
UpdatePage(store, id, updates) ==
    IF id \in DOMAIN store
    THEN [i \in DOMAIN store |->
             IF i = id THEN Merge(store[i], updates) ELSE store[i]]
    ELSE store

\* the ids, the records and the partial records of the storage calls
StoreIds == {0, 1}

StoreRecords ==
    {[id |-> i, url |-> SeedExample, title |-> <<t>>, status |-> "completed"] :
        i \in StoreIds, t \in {"A", "B"}}

StoreUpdates ==
    {[title |-> <<"C">>],
     [status |-> "error", error |-> <<"E">>],
     <<>>}

\* no storage call has been made
NoCall == [op |-> "none"]

\* variant: generateId yields the same id again
GenerateIdRepeated(counter) == 0

\* generateId(): a random string followed by the clock reading, taken as an
\* id that was not handed out before
GenerateId(counter) == counter

RECURSIVE StoreAll(_, _)
\* the store after the given writes, in order
StoreAll(store, writes) ==
    IF writes = <<>> THEN store
    ELSE StoreAll(StorePage(store, Head(writes)), Tail(writes))

-----------------------------------------------------------------------------
(* fetchWithRetry: pure parts *)

\* variant: the exponent counted from 0
BackoffMsFromZero(n) == (2 ^ (n - 1)) * 1000

\* Math.pow(2, attempt) * 1000
BackoffMs(n) == (2 ^ n) * 1000

\* the loop condition attempt <= maxRetries
AttemptAllowed(n, max) == n <= max

\* attempt === maxRetries
IsLastAttempt(n, max) == n = max

\* the domains fetchWithRetry names in its final error
blockingSites == {"google.com", "facebook.com", "twitter.com"}

\* url.includes("google.com") || ...
IsBlockingSite(url) == \E d \in blockingSites : Includes(url, <<d>>)

BlockedSiteMessage(url) ==
    <<"This website (">> \o Hostname(url) \o <<") blocks automated crawling.">>

\* the error of an attempt the 15 second timer aborted
TimeoutError == <<"This operation was aborted">>

\* variant: the timer rejects the attempt without aborting the request
InFlightAfterFailureNoAbort(n, error) ==
    IF error = TimeoutError THEN n ELSE n - 1

\* requests still open after an attempt was rejected: a network failure has
\* ended the request, and controller.abort() ends the one that timed out
InFlightAfterFailure(n, error) == n - 1

\* the error the last failed attempt throws
FinalError(url, error) ==
    IF IsBlockingSite(url) THEN BlockedSiteMessage(url) ELSE error

\* the recrawl route has not been called
NoRecrawl == [pending |-> {}, calls |-> 0]

\* the URL the recrawl route is called with: a page of the site under crawl
RecrawlUrls == {SeedExample}

\* what fetchWithRetry can hand to a crawlSinglePage of the recrawl route:
\* a response that is ok, one that is not, or the error of its last attempt
RecrawlResults(url) ==
    {[type |-> "response",
      response |-> [ok |-> TRUE, status |-> "200", statusText |-> "OK"]],
     [type |-> "response",
      response |-> [ok |-> FALSE, status |-> "404", statusText |-> "Not Found"]],
     [type |-> "error", error |-> FinalError(url, <<"fetch failed">>)]}

-----------------------------------------------------------------------------
(* Events handed to onProgress *)

ProgressEvent(total, completed, current) ==
    [type |-> "progress",
     progress |-> [total |-> total, completed |-> completed, current |-> current]]

PageEvent(page) == [type |-> "page", page |-> page]

\* variant: the complete event counts the pages beyond the seed
CompleteEventBeyondSeed(n) == [type |-> "complete", totalPages |-> n - 1]

CompleteEvent(n) == [type |-> "complete", totalPages |-> n]

ErrorEvent(message) == [type |-> "error", error |-> message]

NoUrlsMessage == <<"No URLs discovered. Please check if the website is accessible.">>

InvalidUrlMessage == <<"Invalid URL">>

-----------------------------------------------------------------------------
(* State *)

VARIABLES
    world,          \* which web the run faces: "any" or "tree"
    budget,         \* faults the network may still produce
    startUrl,       \* the argument of crawlWebsite
    pc,             \* position of the run
    visitedUrls,    \* discoverUrls: Set of visited URLs
    urlsToVisit,    \* discoverUrls: the frontier queue
    discoveredUrls, \* discoverUrls: the result list
    currentUrl,     \* discoverUrls: the URL dequeued last
    fetchUrl,       \* fetchWithRetry: url
    maxRetries,     \* fetchWithRetry: maxRetries
    attempt,        \* fetchWithRetry: attempt
    caller,         \* who awaits the running fetchWithRetry
    fetchResult,    \* how the last fetchWithRetry settled
    fetchLog,       \* fetch attempts and sleeps of the current fetchWithRetry
    index,          \* crawlWebsite: position of the for loop in discoveredUrls
    completedPages, \* crawlWebsite: completedPages
    totalPages,     \* crawlWebsite: totalPages
    crawlUrl,       \* crawlSinglePage: url
    pageId,         \* crawlSinglePage: pageId
    outcome,        \* how the last crawlSinglePage settled
    events,         \* everything handed to onProgress, in order
    pages,          \* the store: id -> record
    nextId,         \* ids handed out so far (generateId yields fresh ids)
    anyFetch,       \* history: a fetch was issued
    fetchFailed,    \* history: URLs whose discovery fetch yielded no page
    bodyRejected,   \* history: the last crawlSinglePage could not read the body
    responsesSeen,  \* history: responses the current fetchWithRetry received
    inFlight,       \* history: requests issued and neither answered nor ended
    cancelled,      \* the client has cancelled the stream of the crawl route
    hops            \* history of discoverUrls: links from the seed to each queued URL

vars ==
    <<world, budget, startUrl, pc, visitedUrls, urlsToVisit, discoveredUrls,
      currentUrl, fetchUrl, maxRetries, attempt, caller, fetchResult, fetchLog,
      index, completedPages, totalPages, crawlUrl, pageId, outcome, events,
      pages, nextId, anyFetch, fetchFailed, bodyRejected, responsesSeen,
      inFlight, cancelled, hops, scanned, parsed, storeCall, recrawl>>

discoveryVars == <<visitedUrls, urlsToVisit, discoveredUrls, currentUrl, hops>>
fetchVars ==
    <<fetchUrl, maxRetries, attempt, caller, fetchResult, fetchLog,
      responsesSeen, inFlight>>
crawlVars ==
    <<index, completedPages, totalPages, crawlUrl, pageId, outcome, bodyRejected>>
worldVars ==
    <<world, startUrl, cancelled, scanned, parsed, storeCall, recrawl>>

EmptyStore == [i \in {} |-> NoResult]

NoHops == [u \in {} |-> 0]

\* the hops of every URL queued so far, after a pass that turned the frontier
\* into queue: a URL queued in this pass lies one link beyond the page scanned
HopsAfter(h, queue, page) ==
    [u \in DOMAIN h \cup Range(queue) |->
        IF u \in DOMAIN h THEN h[u] ELSE h[page] + 1]

Init ==
    /\ world \in {"any", "tree"}
    /\ startUrl \in IF world = "tree" THEN {SeedExample} ELSE Seeds
    /\ budget = IF world = "tree" THEN MaxTreeFaults ELSE MaxFaults
    /\ pc = "start"
    /\ visitedUrls = {}
    /\ urlsToVisit = <<>>
    /\ discoveredUrls = <<>>
    /\ currentUrl = <<>>
    /\ fetchUrl = <<>>
    /\ maxRetries = 0
    /\ attempt = 0
    /\ caller = "none"
    /\ fetchResult = NoResult
    /\ fetchLog = <<>>
    /\ index = 0
    /\ completedPages = 0
    /\ totalPages = 0
    /\ crawlUrl = <<>>
    /\ pageId = 0
    /\ outcome = NoResult
    /\ events = <<>>
    /\ pages = EmptyStore
    /\ nextId = 0
    /\ anyFetch = FALSE
    /\ fetchFailed = {}
    /\ bodyRejected = FALSE
    /\ responsesSeen = 0
    /\ inFlight = 0
    /\ cancelled = FALSE
    /\ hops = NoHops
    /\ scanned = <<>>
    /\ parsed = TreeDoc
    /\ storeCall = NoCall
    /\ recrawl = NoRecrawl

-----------------------------------------------------------------------------
(* fetchWithRetry *)

\* the call fetchWithRetry(url, max): the loop starts with attempt = 1
CallFetch(url, max, who) ==
    /\ fetchUrl' = url
    /\ maxRetries' = max
    /\ attempt' = 1
    /\ caller' = who
    /\ fetchResult' = NoResult
    /\ fetchLog' = <<>>
    /\ responsesSeen' = 0
    /\ UNCHANGED inFlight
    /\ pc' = "fetch"

\* variant: the outcome is recorded but the retry loop is not left
SettleFetchKeepLooping(result) ==
    /\ fetchResult' = result
    /\ pc' = "backoff"

\* fetchWithRetry settles and its caller resumes
SettleFetch(result) ==
    /\ fetchResult' = result
    /\ pc' = IF caller = "discover" THEN "discover_got" ELSE "crawl_got"

\* the loop head and the call of fetch()
FetchIssue ==
    /\ pc = "fetch"
    /\ IF AttemptAllowed(attempt, maxRetries)
       THEN /\ fetchLog' = Append(fetchLog, [op |-> "fetch", attempt |-> attempt])
            /\ anyFetch' = TRUE
            /\ inFlight' = inFlight + 1
            /\ pc' = "inflight"
            /\ UNCHANGED fetchResult
       ELSE /\ SettleFetch([type |-> "error", error |-> <<"Max retries exceeded">>])
            /\ UNCHANGED <<fetchLog, anyFetch, inFlight>>
    /\ UNCHANGED <<worldVars, budget, discoveryVars, fetchUrl, maxRetries,
                   attempt, caller, responsesSeen, crawlVars, events, pages,
                   nextId, fetchFailed>>

\* variant: a response that is not ok is treated like a failed attempt
FetchRespondRetryNotOk ==
    /\ pc = "inflight"
    /\ \/ /\ SettleFetch([type |-> "response",
                          response |-> [ok |-> TRUE, status |-> "200",
                                        statusText |-> "OK"]])
          /\ UNCHANGED budget
       \/ /\ budget > 0
          /\ budget' = budget - 1
          /\ \E st \in ErrorStatuses :
                IF IsLastAttempt(attempt, maxRetries)
                THEN SettleFetch([type |-> "response",
                                  response |-> [ok |-> FALSE,
                                                status |-> st.status,
                                                statusText |-> st.statusText]])
                ELSE /\ pc' = "backoff"
                     /\ UNCHANGED fetchResult
    /\ responsesSeen' = responsesSeen + 1
    /\ inFlight' = inFlight - 1
    /\ UNCHANGED <<worldVars, discoveryVars, fetchUrl, maxRetries, attempt,
                   caller, fetchLog, crawlVars, events, pages, nextId, anyFetch,
                   fetchFailed>>

\* fetch() resolves: the response is returned whatever its status
FetchRespond ==
    /\ pc = "inflight"
    /\ \/ /\ SettleFetch([type |-> "response",
                          response |-> [ok |-> TRUE, status |-> "200",
                                        statusText |-> "OK"]])
          /\ UNCHANGED budget
       \/ /\ budget > 0
          /\ budget' = budget - 1
          /\ \E st \in ErrorStatuses :
                SettleFetch([type |-> "response",
                             response |-> [ok |-> FALSE, status |-> st.status,
                                           statusText |-> st.statusText]])
    /\ responsesSeen' = responsesSeen + 1
    /\ inFlight' = inFlight - 1
    /\ UNCHANGED <<worldVars, discoveryVars, fetchUrl, maxRetries, attempt,
                   caller, fetchLog, crawlVars, events, pages, nextId, anyFetch,
                   fetchFailed>>

\* fetch() rejects (network failure or timeout): the catch block
FetchFail ==
    /\ pc = "inflight"
    /\ budget > 0
    /\ budget' = budget - 1
    /\ \E error \in NetworkErrors :
          /\ inFlight' = InFlightAfterFailure(inFlight, error)
          /\ IF IsLastAttempt(attempt, maxRetries)
             THEN SettleFetch([type |-> "error",
                               error |-> FinalError(fetchUrl, error)])
             ELSE /\ pc' = "backoff"
                  /\ UNCHANGED fetchResult
    /\ UNCHANGED <<worldVars, discoveryVars, fetchUrl, maxRetries, attempt,
                   caller, fetchLog, responsesSeen, crawlVars, events, pages,
                   nextId, anyFetch, fetchFailed>>

\* the backoff sleep elapses and the loop increments attempt
FetchBackoff ==
    /\ pc = "backoff"
    /\ fetchLog' = Append(fetchLog, [op |-> "sleep", ms |-> BackoffMs(attempt)])
    /\ attempt' = attempt + 1
    /\ pc' = "fetch"
    /\ UNCHANGED <<worldVars, budget, discoveryVars, fetchUrl, maxRetries,
                   caller, fetchResult, responsesSeen, inFlight, crawlVars,
                   events, pages, nextId, anyFetch, fetchFailed>>

-----------------------------------------------------------------------------
(* discoverUrls *)

\* variant: crawlWebsite reports progress before it calls discoverUrls
DiscoverStartProgressFirst ==
    /\ pc = "start"
    /\ visitedUrls' = {}
    /\ urlsToVisit' = InitialFrontier(startUrl)
    /\ discoveredUrls' = <<>>
    /\ hops' = [u \in Range(urlsToVisit') |-> 0]
    /\ IF ~IsValidUrl(startUrl)
       THEN /\ events' = Append(events, ErrorEvent(InvalidUrlMessage))
            /\ pc' = "done"
       ELSE IF IsBlockedDomain(Hostname(startUrl))
       THEN /\ events' = events \o
                             << ProgressEvent(0, 0, startUrl),
                                ErrorEvent(BlockedDomainMessage(Hostname(startUrl))) >>
            /\ pc' = "done"
       ELSE /\ pc' = "discover"
            /\ UNCHANGED events
    /\ UNCHANGED <<worldVars, budget, currentUrl, fetchVars, crawlVars, pages,
                   nextId, anyFetch, fetchFailed>>

\* crawlWebsite calls discoverUrls: the locals are created and the seed is
\* checked; a throw lands in the catch block of crawlWebsite
DiscoverStart ==
    /\ pc = "start"
    /\ visitedUrls' = {}
    /\ urlsToVisit' = InitialFrontier(startUrl)
    /\ discoveredUrls' = <<>>
    /\ hops' = [u \in Range(urlsToVisit') |-> 0]
    /\ IF ~IsValidUrl(startUrl)
       THEN /\ events' = Append(events, ErrorEvent(InvalidUrlMessage))
            /\ pc' = "done"
       ELSE IF IsBlockedDomain(Hostname(startUrl))
       THEN /\ events' = Append(events,
                            ErrorEvent(BlockedDomainMessage(Hostname(startUrl))))
            /\ pc' = "done"
       ELSE /\ pc' = "discover"
            /\ UNCHANGED events
    /\ UNCHANGED <<worldVars, budget, currentUrl, fetchVars, crawlVars, pages,
                   nextId, anyFetch, fetchFailed>>

\* variant: a head that was already visited is left in the frontier
DiscoverPopKeepVisited ==
    /\ pc = "discover"
    /\ DiscoverContinues(urlsToVisit, discoveredUrls)
    /\ currentUrl' = Head(urlsToVisit)
    /\ IF AlreadyVisited(Head(urlsToVisit), visitedUrls)
       THEN UNCHANGED <<pc, visitedUrls, discoveredUrls, fetchVars, urlsToVisit>>
       ELSE /\ urlsToVisit' = Tail(urlsToVisit)
            /\ visitedUrls' = visitedUrls \cup {Head(urlsToVisit)}
            /\ discoveredUrls' = Append(discoveredUrls, Head(urlsToVisit))
            /\ CallFetch(Head(urlsToVisit), DiscoverRetries, "discover")
    /\ UNCHANGED <<worldVars, budget, crawlVars, events, pages, nextId,
                   anyFetch, fetchFailed, hops>>

\* one pass through the head of the while loop: shift, the visited check,
\* the two appends and the call of fetchWithRetry
DiscoverPop ==
    /\ pc = "discover"
    /\ DiscoverContinues(urlsToVisit, discoveredUrls)
    /\ urlsToVisit' = Tail(urlsToVisit)
    /\ currentUrl' = Head(urlsToVisit)
    /\ IF AlreadyVisited(Head(urlsToVisit), visitedUrls)
       THEN UNCHANGED <<pc, visitedUrls, discoveredUrls, fetchVars>>
       ELSE /\ visitedUrls' = visitedUrls \cup {Head(urlsToVisit)}
            /\ discoveredUrls' = Append(discoveredUrls, Head(urlsToVisit))
            /\ CallFetch(Head(urlsToVisit), DiscoverRetries, "discover")
    /\ UNCHANGED <<worldVars, budget, crawlVars, events, pages, nextId,
                   anyFetch, fetchFailed, hops>>

\* variant: a URL whose fetch failed is taken off the discovered list
DiscoverSkipForget ==
    /\ pc = "discover_got"
    /\ \/ fetchResult.type = "error"
       \/ fetchResult.type = "response" /\ ~fetchResult.response.ok
    /\ fetchFailed' = fetchFailed \cup {currentUrl}
    /\ discoveredUrls' = SelectSeq(discoveredUrls, LAMBDA u : u # currentUrl)
    /\ pc' = "discover"
    /\ UNCHANGED <<worldVars, budget, visitedUrls, urlsToVisit, currentUrl,
                   hops, fetchVars, crawlVars, events, pages, nextId, anyFetch>>

\* fetchWithRetry threw, or the response is not ok: no links, next pass
DiscoverSkip ==
    /\ pc = "discover_got"
    /\ \/ fetchResult.type = "error"
       \/ fetchResult.type = "response" /\ ~fetchResult.response.ok
    /\ fetchFailed' = fetchFailed \cup {currentUrl}
    /\ pc' = "discover"
    /\ UNCHANGED <<worldVars, budget, discoveryVars, fetchVars, crawlVars,
                   events, pages, nextId, anyFetch>>

\* the response is ok: the body is read and parsed, the anchors are scanned
\* and the first ten accepted links are pushed; a rejected read is swallowed
DiscoverScan ==
    /\ pc = "discover_got"
    /\ fetchResult.type = "response"
    /\ fetchResult.response.ok
    /\ \/ /\ budget > 0
          /\ budget' = budget - 1
          /\ fetchFailed' = fetchFailed \cup {currentUrl}
          /\ UNCHANGED urlsToVisit
       \/ /\ \E hrefs \in Anchors(world, currentUrl) :
                urlsToVisit' =
                    Enqueue(urlsToVisit,
                            ScanLinks(hrefs, startUrl, currentUrl,
                                      visitedUrls, urlsToVisit))
          /\ UNCHANGED <<budget, fetchFailed>>
    /\ hops' = HopsAfter(hops, urlsToVisit', currentUrl)
    /\ pc' = "discover"
    /\ UNCHANGED <<worldVars, visitedUrls, discoveredUrls, currentUrl,
                   fetchVars, crawlVars, events, pages, nextId, anyFetch>>

\* the loop ends, discoverUrls returns and crawlWebsite goes on up to the
\* initial progress event
DiscoverReturn ==
    /\ pc = "discover"
    /\ ~DiscoverContinues(urlsToVisit, discoveredUrls)
    /\ IF Len(discoveredUrls) = 0
       THEN /\ events' = Append(events, ErrorEvent(NoUrlsMessage))
            /\ pc' = "done"
            /\ UNCHANGED <<index, completedPages, totalPages>>
       ELSE /\ completedPages' = 0
            /\ totalPages' = Len(discoveredUrls)
            /\ events' = Append(events,
                                ProgressEvent(Len(discoveredUrls), 0, startUrl))
            /\ index' = 1
            /\ pc' = "crawl"
    /\ hops' = NoHops
    /\ UNCHANGED <<worldVars, budget, visitedUrls, urlsToVisit, discoveredUrls,
                   currentUrl, fetchVars, crawlUrl, pageId, outcome,
                   bodyRejected, pages, nextId, anyFetch, fetchFailed>>

-----------------------------------------------------------------------------
(* crawlWebsite: the loop over the discovered URLs *)

\* the next URL: the progress event, then crawlSinglePage up to its fetch
CrawlNext ==
    /\ pc = "crawl"
    /\ index <= Len(discoveredUrls)
    /\ events' = Append(events,
                        ProgressEvent(totalPages, completedPages,
                                      discoveredUrls[index]))
    /\ crawlUrl' = discoveredUrls[index]
    /\ pageId' = GenerateId(nextId)
    /\ nextId' = nextId + 1
    /\ outcome' = NoResult
    /\ bodyRejected' = FALSE
    /\ CallFetch(discoveredUrls[index], CrawlRetries, "crawl")
    /\ UNCHANGED <<worldVars, budget, discoveryVars, index, completedPages,
                   totalPages, pages, anyFetch, fetchFailed>>

\* crawlSinglePage after its fetch: the record is built and stored
CrawlSinglePageFinish ==
    /\ pc = "crawl_got"
    /\ \E body \in
            IF fetchResult.type = "response" /\ fetchResult.response.ok
            THEN Documents(world, crawlUrl)
                     \cup (IF budget > 0 THEN {BodyFailed} ELSE {})
            ELSE {BodyFailed} :
          /\ outcome' = SinglePageOutcome(pageId, crawlUrl, fetchResult, body)
          /\ bodyRejected' = /\ fetchResult.type = "response"
                             /\ fetchResult.response.ok
                             /\ body = BodyFailed
          /\ budget' = IF bodyRejected' THEN budget - 1 ELSE budget
    /\ pages' = StoreAll(pages, outcome'.writes)
    /\ pc' = "page_settled"
    /\ UNCHANGED <<worldVars, discoveryVars, fetchVars, index, completedPages,
                   totalPages, crawlUrl, pageId, events, nextId, anyFetch,
                   fetchFailed>>

\* variant: only completed records are reported
CrawlEmitPageCompletedOnly ==
    /\ pc = "page_settled"
    /\ outcome.kind = "return"
    /\ events' = IF outcome.page.status = "completed"
                 THEN Append(events, PageEvent(outcome.page)) ELSE events
    /\ completedPages' = completedPages + 1
    /\ pc' = "pause"
    /\ UNCHANGED <<worldVars, budget, discoveryVars, fetchVars, index,
                   totalPages, crawlUrl, pageId, outcome, bodyRejected,
                   pages, nextId, anyFetch, fetchFailed>>

\* variant: the loop goes on to the next URL without the pause
CrawlEmitPageNoPause ==
    /\ pc = "page_settled"
    /\ outcome.kind = "return"
    /\ events' = Append(events, PageEvent(outcome.page))
    /\ completedPages' = completedPages + 1
    /\ index' = index + 1
    /\ pc' = "crawl"
    /\ UNCHANGED <<worldVars, budget, discoveryVars, fetchVars, totalPages,
                   crawlUrl, pageId, outcome, bodyRejected, pages, nextId,
                   anyFetch, fetchFailed>>

\* variant: completedPages counts the completed records only
CrawlEmitPageCountCompletedOnly ==
    /\ pc = "page_settled"
    /\ outcome.kind = "return"
    /\ events' = Append(events, PageEvent(outcome.page))
    /\ completedPages' = IF outcome.page.status = "completed"
                         THEN completedPages + 1 ELSE completedPages
    /\ pc' = "pause"
    /\ UNCHANGED <<worldVars, budget, discoveryVars, fetchVars, index,
                   totalPages, crawlUrl, pageId, outcome, bodyRejected,
                   pages, nextId, anyFetch, fetchFailed>>

\* crawlWebsite after crawlSinglePage: the page event and the counter; the
\* catch block builds, stores and emits a record of its own
CrawlEmitPage ==
    /\ pc = "page_settled"
    /\ IF outcome.kind = "return"
       THEN /\ events' = Append(events, PageEvent(outcome.page))
            /\ UNCHANGED <<pages, nextId>>
       ELSE /\ pages' = StorePage(pages, ErrorPage(nextId, crawlUrl, outcome.error))
            /\ events' = Append(events,
                                PageEvent(ErrorPage(nextId, crawlUrl, outcome.error)))
            /\ nextId' = nextId + 1
    /\ completedPages' = completedPages + 1
    /\ pc' = "pause"
    /\ UNCHANGED <<worldVars, budget, discoveryVars, fetchVars, index,
                   totalPages, crawlUrl, pageId, outcome, bodyRejected,
                   anyFetch, fetchFailed>>

\* the one second pause ends and the for loop advances
CrawlPause ==
    /\ pc = "pause"
    /\ index' = index + 1
    /\ pc' = "crawl"
    /\ UNCHANGED <<worldVars, budget, discoveryVars, fetchVars, completedPages,
                   totalPages, crawlUrl, pageId, outcome, bodyRejected, events,
                   pages, nextId, anyFetch, fetchFailed>>

\* variant: a run in which a page failed reports an error event after the
\* complete event
CrawlCompleteThenError ==
    /\ pc = "crawl"
    /\ index > Len(discoveredUrls)
    /\ events' = IF \E i \in 1..Len(events) :
                        events[i].type = "page" /\ events[i].page.status = "error"
                 THEN events \o << CompleteEvent(completedPages),
                                   ErrorEvent(<<"Some pages failed">>) >>
                 ELSE Append(events, CompleteEvent(completedPages))
    /\ pc' = "done"
    /\ UNCHANGED <<worldVars, budget, discoveryVars, fetchVars, crawlVars,
                   pages, nextId, anyFetch, fetchFailed>>

\* the for loop is exhausted: the complete event
CrawlComplete ==
    /\ pc = "crawl"
    /\ index > Len(discoveredUrls)
    /\ events' = Append(events, CompleteEvent(completedPages))
    /\ pc' = "done"
    /\ UNCHANGED <<worldVars, budget, discoveryVars, fetchVars, crawlVars,
                   pages, nextId, anyFetch, fetchFailed>>

-----------------------------------------------------------------------------
(* The crawl route *)

\* the client cancels the stream while the run is under way (the run has
\* reached its first fetch before the stream is handed to the client): the
\* cancel callback of the ReadableStream logs and does nothing else
Cancel ==
    /\ anyFetch
    /\ pc # "done"
    /\ ~cancelled
    /\ cancelled' = TRUE
    /\ UNCHANGED <<world, startUrl, scanned, parsed, storeCall, recrawl,
                   budget, pc, discoveryVars, fetchVars, crawlVars, events,
                   pages, nextId, anyFetch, fetchFailed>>

-----------------------------------------------------------------------------

Next ==
    \/ Cancel
    \/ DiscoverStart
    \/ DiscoverPop
    \/ DiscoverSkip
    \/ DiscoverScan
    \/ DiscoverReturn
    \/ FetchIssue
    \/ FetchRespond
    \/ FetchFail
    \/ FetchBackoff
    \/ CrawlNext
    \/ CrawlSinglePageFinish
    \/ CrawlEmitPage
    \/ CrawlPause
    \/ CrawlComplete

Spec == Init /\ [][Next]_vars

\* discoverUrls at the point where the page of currentUrl has been fetched
\* and is about to be scanned, on a site whose pages carry ScanHrefs: at the
\* seed's page, at the seed's page of a plain-http site, and at a page below
\* the root with a sibling queued behind it
ScanSetups ==
    { [seed |-> SeedExample, current |-> SeedExample, queue |-> <<>>],
      [seed |-> <<"http:", "//", "example.com", "/">>,
       current |-> <<"http:", "//", "example.com", "/">>, queue |-> <<>>],
      [seed |-> SeedExample, current |-> DeepPage,
       queue |-> << <<"https:", "//", "example.com", "/", "a">> >>] }

ScanInit ==
    /\ world = "scan"
    /\ scanned \in ScanPages
    /\ parsed = TreeDoc
    /\ storeCall = NoCall
    /\ recrawl = NoRecrawl
    /\ \E s \in ScanSetups :
          /\ startUrl = s.seed
          /\ currentUrl = s.current
          /\ urlsToVisit = s.queue
          /\ visitedUrls = {s.seed, s.current}
          /\ discoveredUrls =
                IF s.current = s.seed THEN <<s.seed>> ELSE <<s.seed, s.current>>
          /\ hops = [u \in {s.seed, s.current} \cup Range(s.queue) |->
                        IF u = s.seed THEN 0 ELSE 1]
    /\ budget = 1
    /\ pc = "discover_got"
    /\ fetchUrl = currentUrl
    /\ maxRetries = DiscoverRetries
    /\ attempt = 1
    /\ caller = "discover"
    /\ fetchResult = [type |-> "response",
                      response |-> [ok |-> TRUE, status |-> "200",
                                    statusText |-> "OK"]]
    /\ fetchLog = <<[op |-> "fetch", attempt |-> 1]>>
    /\ index = 0
    /\ completedPages = 0
    /\ totalPages = 0
    /\ crawlUrl = <<>>
    /\ pageId = 0
    /\ outcome = NoResult
    /\ events = <<>>
    /\ pages = EmptyStore
    /\ nextId = 0
    /\ anyFetch = TRUE
    /\ fetchFailed = {}
    /\ bodyRejected = FALSE
    /\ responsesSeen = 1
    /\ inFlight = 0
    /\ cancelled = FALSE

\* the scan of one page, for every page of ScanPages
ScanNext == DiscoverScan

ScanSpec == ScanInit /\ [][ScanNext]_vars

\* crawlSinglePage on its own: the crawl of a one-page site has fetched the
\* page and is about to parse it, for every document of DocPages
DocInit ==
    /\ world = "doc"
    /\ parsed \in DocPages
    /\ storeCall = NoCall
    /\ recrawl = NoRecrawl
    /\ scanned = <<>>
    /\ startUrl = SeedExample
    /\ budget = 1
    /\ pc = "crawl_got"
    /\ visitedUrls = {SeedExample}
    /\ urlsToVisit = <<>>
    /\ discoveredUrls = <<SeedExample>>
    /\ currentUrl = SeedExample
    /\ hops = NoHops
    /\ fetchUrl = SeedExample
    /\ maxRetries = CrawlRetries
    /\ attempt = 1
    /\ caller = "crawl"
    /\ fetchResult = [type |-> "response",
                      response |-> [ok |-> TRUE, status |-> "200",
                                    statusText |-> "OK"]]
    /\ fetchLog = <<[op |-> "fetch", attempt |-> 1]>>
    /\ index = 1
    /\ completedPages = 0
    /\ totalPages = 1
    /\ crawlUrl = SeedExample
    /\ pageId = 0
    /\ outcome = NoResult
    /\ events = <<ProgressEvent(1, 0, SeedExample),
                  ProgressEvent(1, 0, SeedExample)>>
    /\ pages = EmptyStore
    /\ nextId = 1
    /\ anyFetch = TRUE
    /\ fetchFailed = {}
    /\ bodyRejected = FALSE
    /\ responsesSeen = 1
    /\ inFlight = 0
    /\ cancelled = FALSE

\* the parse of one page, for every document of DocPages
DocNext == CrawlSinglePageFinish

DocSpec == DocInit /\ [][DocNext]_vars

\* the storage module on its own: the store is empty and no crawl runs
StoreInit ==
    /\ world = "store"
    /\ startUrl = SeedExample
    /\ budget = 0
    /\ pc = "start"
    /\ visitedUrls = {}
    /\ urlsToVisit = <<>>
    /\ discoveredUrls = <<>>
    /\ currentUrl = <<>>
    /\ hops = NoHops
    /\ fetchUrl = <<>>
    /\ maxRetries = 0
    /\ attempt = 0
    /\ caller = "none"
    /\ fetchResult = NoResult
    /\ fetchLog = <<>>
    /\ index = 0
    /\ completedPages = 0
    /\ totalPages = 0
    /\ crawlUrl = <<>>
    /\ pageId = 0
    /\ outcome = NoResult
    /\ events = <<>>
    /\ pages = EmptyStore
    /\ nextId = 0
    /\ anyFetch = FALSE
    /\ fetchFailed = {}
    /\ bodyRejected = FALSE
    /\ responsesSeen = 0
    /\ inFlight = 0
    /\ cancelled = FALSE
    /\ scanned = <<>>
    /\ parsed = TreeDoc
    /\ storeCall = NoCall
    /\ recrawl = NoRecrawl

\* what the storage calls leave alone
storeFrame ==
    <<world, startUrl, cancelled, scanned, parsed, recrawl, budget, pc,
      discoveryVars, fetchVars, crawlVars, events, nextId, anyFetch,
      fetchFailed>>

\* storePage(page)
CallStorePage ==
    \E page \in StoreRecords :
        /\ pages' = StorePage(pages, page)
        /\ storeCall' = [op |-> "put", id |-> page.id, page |-> page]
        /\ UNCHANGED storeFrame

\* getPageById(id)
CallGetPageById ==
    \E id \in StoreIds :
        /\ storeCall' = [op |-> "get", id |-> id,
                         result |-> GetPageById(pages, id)]
        /\ UNCHANGED <<pages, storeFrame>>

\* updatePage(id, updates)
CallUpdatePage ==
    \E id \in StoreIds, updates \in StoreUpdates :
        /\ pages' = UpdatePage(pages, id, updates)
        /\ storeCall' = [op |-> "update", id |-> id, updates |-> updates]
        /\ UNCHANGED storeFrame

\* deletePage(id)
CallDeletePage ==
    \E id \in StoreIds :
        /\ pages' = DeletePage(pages, id)
        /\ storeCall' = [op |-> "delete", id |-> id]
        /\ UNCHANGED storeFrame

StoreNext ==
    \/ CallStorePage
    \/ CallGetPageById
    \/ CallUpdatePage
    \/ CallDeletePage

StoreSpec == StoreInit /\ [][StoreNext]_vars

\* a crawl run and the recrawl route side by side: a site of two pages,
\* one fault, and no call of the recrawl route yet
RecrawlInit ==
    /\ world = "pair"
    /\ startUrl = SeedExample
    /\ budget = 1
    /\ pc = "start"
    /\ visitedUrls = {}
    /\ urlsToVisit = <<>>
    /\ discoveredUrls = <<>>
    /\ currentUrl = <<>>
    /\ hops = NoHops
    /\ fetchUrl = <<>>
    /\ maxRetries = 0
    /\ attempt = 0
    /\ caller = "none"
    /\ fetchResult = NoResult
    /\ fetchLog = <<>>
    /\ index = 0
    /\ completedPages = 0
    /\ totalPages = 0
    /\ crawlUrl = <<>>
    /\ pageId = 0
    /\ outcome = NoResult
    /\ events = <<>>
    /\ pages = EmptyStore
    /\ nextId = 0
    /\ anyFetch = FALSE
    /\ fetchFailed = {}
    /\ bodyRejected = FALSE
    /\ responsesSeen = 0
    /\ inFlight = 0
    /\ cancelled = FALSE
    /\ scanned = <<>>
    /\ parsed = TreeDoc
    /\ storeCall = NoCall
    /\ recrawl = NoRecrawl

\* what the recrawl route leaves alone
recrawlFrame ==
    <<world, startUrl, cancelled, scanned, parsed, storeCall, budget, pc,
      discoveryVars, fetchVars, crawlVars, events, anyFetch, fetchFailed>>

\* POST /api/recrawl: crawlSinglePage(url) starts and generates its id
RecrawlBegin ==
    /\ recrawl.calls < MaxRecrawls
    /\ \E url \in RecrawlUrls :
          recrawl' = [recrawl EXCEPT
                         !.pending = @ \cup {[id |-> GenerateId(nextId),
                                              url |-> url]},
                         !.calls = @ + 1]
    /\ nextId' = nextId + 1
    /\ UNCHANGED <<recrawlFrame, pages>>

\* the crawlSinglePage of a recrawl request settles: its fetchWithRetry has
\* handed over a response or an error, the record is stored and returned
RecrawlFinish ==
    /\ \E call \in recrawl.pending :
          \E res \in RecrawlResults(call.url) :
             \E body \in IF res.type = "response" /\ res.response.ok
                          THEN Documents(world, call.url) \cup {BodyFailed}
                          ELSE {BodyFailed} :
                LET result == SinglePageOutcome(call.id, call.url, res, body)
                IN  /\ pages' = StoreAll(pages, result.writes)
                    /\ recrawl' = [recrawl EXCEPT !.pending = @ \ {call}]
    /\ UNCHANGED <<recrawlFrame, nextId>>

RecrawlNext ==
    \/ Next
    \/ RecrawlBegin
    \/ RecrawlFinish

RecrawlSpec == RecrawlInit /\ [][RecrawlNext]_vars

\* the event loop: a continuation that can run does run, a timer that was
\* set fires, and every fetch attempt eventually responds or fails
FairSpec == Init /\ [][Next]_vars /\ WF_vars(Next)

-----------------------------------------------------------------------------
(* Properties *)

\* the run is in the for loop of crawlWebsite
InCrawlLoop ==
    \/ pc \in {"crawl", "crawl_got", "page_settled", "pause"}
    \/ pc \in {"fetch", "inflight", "backoff"} /\ caller = "crawl"

\* discoverUrls has returned its list to crawlWebsite
DiscoveryReturned ==
    \/ InCrawlLoop
    \/ pc = "done" /\ IsValidUrl(startUrl) /\ ~IsBlockedDomain(Hostname(startUrl))

NoDuplicates(s) == \A i, j \in 1..Len(s) : i # j => s[i] # s[j]

\* C1: in every state of discoverUrls, and in the list it returns, at most
\* 50 URLs are discovered
DiscoveredWithinCap == Len(discoveredUrls) <= 50

\* the traversal was cut by the cap: 50 URLs returned, the frontier not empty
CapReached ==
    /\ pc = "done"
    /\ Len(discoveredUrls) = 50
    /\ urlsToVisit # <<>>

\* C2: the list discoverUrls builds and returns holds no URL twice
DiscoveredHasNoDuplicates == NoDuplicates(discoveredUrls)

\* a URL queued twice was dequeued a second time and skipped
DuplicateSkipped ==
    /\ pc = "discover"
    /\ Len(discoveredUrls) >= 2
    /\ currentUrl \in visitedUrls
    /\ currentUrl # discoveredUrls[Len(discoveredUrls)]
    /\ NoDuplicates(discoveredUrls)

\* C3: the frontier holds no visited URL and no URL twice
FrontierHasNoVisitedNoDuplicates ==
    /\ \A i \in 1..Len(urlsToVisit) : urlsToVisit[i] \notin visitedUrls
    /\ NoDuplicates(urlsToVisit)

\* C4: whenever discoverUrls returns, the first element of its list is the
\* seed, whether or not the fetch of the seed succeeded
SeedIsFirstDiscovered ==
    DiscoveryReturned =>
        /\ Len(discoveredUrls) >= 1
        /\ discoveredUrls[1] = startUrl

\* discovery returned a list headed by the seed although its fetch failed
SeedFirstAfterFailedFetch ==
    /\ DiscoveryReturned
    /\ startUrl \in fetchFailed
    /\ discoveredUrls # <<>>
    /\ discoveredUrls[1] = startUrl

\* C5: a seed whose hostname contains a deny-list entry makes discoverUrls
\* fail with the blocked-domain error before any fetch is issued, any URL
\* is marked visited or any record is stored
BlockedSeedFailsBeforeAnyWork ==
    (\E d \in {"google.com", "facebook.com", "twitter.com", "instagram.com",
               "linkedin.com"} : Includes(Hostname(startUrl), <<d>>))
    => /\ pc \in {"start", "done"}
       /\ ~anyFetch
       /\ visitedUrls = {}
       /\ DOMAIN pages = {}
       /\ pc = "done" =>
             events = <<ErrorEvent(BlockedDomainMessage(Hostname(startUrl)))>>

\* a run on a deny-listed seed has ended
BlockedSeedRejected ==
    /\ pc = "done"
    /\ startUrl \in BlockedSeeds
    /\ Len(events) = 1
    /\ events[1].type = "error"

\* the k-th event of a run whose discovery returned n URLs is the one the
\* order {initial progress, [progress, page] x n, complete-or-error} puts there
EventInPlace(e, k, n) ==
    IF k = 1
    THEN e.type = "progress" /\ e.progress.current = startUrl
    ELSE IF k = 2 * n + 2
    THEN e.type \in {"complete", "error"}
    ELSE IF k % 2 = 0
    THEN e.type = "progress" /\ e.progress.current = discoveredUrls[k \div 2]
    ELSE e.type = "page" /\ e.page.url = discoveredUrls[(k - 1) \div 2]

\* C6: in a run whose discovery returned N URLs the sink sees one initial
\* progress event, then for each URL in discovered order a progress event
\* and a page event for it, then one complete-or-error event
EventsInOrder ==
    DiscoveryReturned =>
        /\ Len(events) <= 2 * Len(discoveredUrls) + 2
        /\ \A k \in 1..Len(events) :
              EventInPlace(events[k], k, Len(discoveredUrls))
        /\ pc = "done" => Len(events) = 2 * Len(discoveredUrls) + 2

\* a run over several URLs, one of them failed, has reported all its events
RunReportedWithFailure ==
    /\ pc = "done"
    /\ Len(discoveredUrls) >= 2
    /\ Len(events) = 2 * Len(discoveredUrls) + 2
    /\ events[Len(events)].type = "complete"
    /\ \E k \in 1..Len(events) :
          events[k].type = "page" /\ events[k].page.status = "error"
    /\ \E k \in 1..Len(events) :
          events[k].type = "page" /\ events[k].page.status = "completed"

\* the fetch or the body read of the crawlSinglePage that just settled failed
PageFetchFailed ==
    \/ fetchResult.type = "error"
    \/ fetchResult.type = "response" /\ ~fetchResult.response.ok
    \/ bodyRejected

\* C7: crawlSinglePage never signals an error: whatever the fetch did it
\* returns a record for its URL, and every failure yields status = error
SinglePageAlwaysReturns ==
    pc = "page_settled" =>
        /\ outcome.kind = "return"
        /\ outcome.page.url = crawlUrl
        /\ outcome.page.id = pageId
        /\ PageFetchFailed => outcome.page.status = "error"

\* crawlSinglePage returned an error record after all its attempts failed
ReturnedAfterExhaustedFetch ==
    /\ pc = "page_settled"
    /\ fetchResult.type = "error"
    /\ Len(fetchLog) = 5
    /\ outcome.kind = "return"
    /\ outcome.page.status = "error"

\* a page record as the data model wants it
WellFormedRecord(r) ==
    /\ r.status \in {"completed", "error"}
    /\ ("error" \in DOMAIN r) <=> (r.status = "error")
    /\ r.status = "error" =>
          /\ r.content = <<>>
          /\ "wordCount" \in DOMAIN r
          /\ r.wordCount = 0
    /\ "crawledAt" \in DOMAIN r
    /\ r.crawledAt # <<>>

\* C8: every record crawlSinglePage returns and every record a page event
\* carries is completed or error, has an error message iff it is error, has
\* empty content and word count 0 when error, and has its timestamp set
RecordsWellFormed ==
    /\ (pc = "page_settled" /\ outcome.kind = "return")
          => WellFormedRecord(outcome.page)
    /\ \A k \in 1..Len(events) :
          events[k].type = "page" => WellFormedRecord(events[k].page)

\* page events of both kinds have been emitted
BothKindsOfRecordEmitted ==
    /\ \E k \in 1..Len(events) :
          events[k].type = "page" /\ events[k].page.status = "error"
    /\ \E k \in 1..Len(events) :
          events[k].type = "page" /\ events[k].page.status = "completed"
    /\ pc = "page_settled"
    /\ outcome.kind = "return"

\* the store holds r under r's id
Stored(r) == r.id \in DOMAIN pages /\ pages[r.id] = r

\* C9: crawlSinglePage has written its record before it returns, in both
\* outcomes, so the store holds the record of every page event
StoredBeforeReported ==
    /\ (pc = "page_settled" /\ outcome.kind = "return") => Stored(outcome.page)
    /\ \A k \in 1..Len(events) :
          events[k].type = "page" => Stored(events[k].page)

\* an error record has just been reported and is in the store
ErrorRecordReportedAndStored ==
    /\ pc = "pause"
    /\ events[Len(events)].type = "page"
    /\ events[Len(events)].page.status = "error"
    /\ Stored(events[Len(events)].page)

\* the k-th entry of the log of one fetchWithRetry call: attempts alternate
\* with sleeps, and the sleep after attempt n lasts 2^n seconds
LogEntryInPlace(e, k) ==
    IF k % 2 = 1
    THEN e = [op |-> "fetch", attempt |-> (k + 1) \div 2]
    ELSE e = [op |-> "sleep", ms |-> (2 ^ (k \div 2)) * 1000]

\* C10: a call fetchWithRetry(url, maxRetries), maxRetries >= 1, makes at
\* most maxRetries attempts; failed attempt k < maxRetries is followed by a
\* sleep of 2^k seconds before attempt k+1; no sleep follows the last attempt
RetriesBoundedWithBackoff ==
    maxRetries >= 1 =>
        /\ Len(fetchLog) <= 2 * maxRetries - 1
        /\ \A k \in 1..Len(fetchLog) : LogEntryInPlace(fetchLog[k], k)
        /\ attempt <= maxRetries
        /\ (pc \in {"discover_got", "crawl_got"} /\ fetchResult.type = "error")
              => /\ Len(fetchLog) = 2 * maxRetries - 1
                 /\ fetchLog[Len(fetchLog)].op = "fetch"

\* a call with three attempts has failed after sleeping 2 s and 4 s
ThreeAttemptsExhausted ==
    /\ pc = "crawl_got"
    /\ fetchResult.type = "error"
    /\ maxRetries = 3
    /\ fetchLog = << [op |-> "fetch", attempt |-> 1],
                     [op |-> "sleep", ms |-> 2000],
                     [op |-> "fetch", attempt |-> 2],
                     [op |-> "sleep", ms |-> 4000],
                     [op |-> "fetch", attempt |-> 3] >>

\* fetchWithRetry has just settled
FetchSettled == pc \in {"discover_got", "crawl_got"}

\* C11: fetchWithRetry returns the response of the first attempt that gets
\* one, whatever its status (a 4xx/5xx response is never retried), while a
\* timed-out or failed attempt is retried as long as attempts remain
FirstResponseEndsCall ==
    /\ responsesSeen <= 1
    /\ responsesSeen = 1 => /\ pc \notin {"fetch", "inflight", "backoff"}
                            /\ fetchResult.type = "response"
    /\ (FetchSettled /\ fetchResult.type = "response") =>
          /\ responsesSeen = 1
          /\ Len(fetchLog) = 2 * attempt - 1
          /\ fetchLog[Len(fetchLog)] = [op |-> "fetch", attempt |-> attempt]
    /\ (FetchSettled /\ fetchResult.type = "error") =>
          /\ attempt = maxRetries
          /\ Len(fetchLog) = 2 * maxRetries - 1
          /\ responsesSeen = 0
    /\ pc = "backoff" => attempt < maxRetries /\ responsesSeen = 0

\* a failed first attempt was retried, and the 4xx/5xx answer of the second
\* attempt was returned although a third attempt remained
NotOkReturnedAfterOneRetry ==
    /\ pc = "crawl_got"
    /\ fetchResult.type = "response"
    /\ ~fetchResult.response.ok
    /\ maxRetries = 3
    /\ fetchLog = << [op |-> "fetch", attempt |-> 1],
                     [op |-> "sleep", ms |-> 2000],
                     [op |-> "fetch", attempt |-> 2] >>

\* C12: when all attempts fail, the call fails with the BlockedSite error if
\* and only if the hostname of the URL matches google.com, facebook.com or
\* twitter.com; for every other URL it fails with the last network error
BlockedSiteIffHostnameMatches ==
    (FetchSettled /\ fetchResult.type = "error") =>
        IF \E d \in {"google.com", "facebook.com", "twitter.com"} :
               Includes(Hostname(fetchUrl), <<d>>)
        THEN fetchResult.error = BlockedSiteMessage(fetchUrl)
        ELSE fetchResult.error \in NetworkErrors

InFetchLoop == pc \in {"fetch", "inflight", "backoff"}

\* C13: every call of fetchWithRetry ends in exactly one outcome, a returned
\* response or a thrown error and never both, and once the outcome exists the
\* call makes no further attempt and sleeps no more
ExactlyOneOutcomePerCall ==
    /\ fetchResult.type \in {"none", "response", "error"}
    /\ fetchResult.type = "none" => DOMAIN fetchResult = {"type"}
    /\ fetchResult.type = "response" => DOMAIN fetchResult = {"type", "response"}
    /\ fetchResult.type = "error" => DOMAIN fetchResult = {"type", "error"}
    /\ InFetchLoop => fetchResult = NoResult
    /\ FetchSettled => fetchResult.type # "none"
    /\ (fetchResult.type # "none" /\ fetchLog # <<>>) =>
          fetchLog[Len(fetchLog)].op = "fetch"

ErrorOutcomeInDiscovery ==
    /\ pc = "discover_got"
    /\ fetchResult.type = "error"
    /\ Len(fetchLog) = 2 * DiscoverRetries - 1

\* the run reported the blocked-domain error of discoverUrls
DenyListErrorEmitted ==
    \E i \in 1..Len(events) :
        /\ events[i].type = "error"
        /\ \E host \in {Hostname(s) : s \in Seeds} :
              events[i].error = BlockedDomainMessage(host)

\* C14: a run whose discovery fails on the deny-list emits exactly one event,
\* the error event, and ends: no progress, page or complete event, and no
\* page record stored
DenyListAbortEmitsOnlyTheError ==
    /\ DenyListErrorEmitted =>
          /\ pc = "done"
          /\ Len(events) = 1
          /\ events[1] = ErrorEvent(BlockedDomainMessage(Hostname(startUrl)))
          /\ DOMAIN pages = {}
          /\ nextId = 0
          /\ discoveredUrls = <<>>
    /\ (pc = "done" /\ discoveredUrls = <<>>) =>
          /\ Len(events) = 1
          /\ events[1].type = "error"
          /\ DOMAIN pages = {}

\* the run on the seed whose hostname merely contains facebook.com has ended
\* with the single error event
EmbeddedDenyListSeedAborted ==
    /\ pc = "done"
    /\ startUrl = <<"https:", "//", "my", "facebook.com", ".example.org", "/">>
    /\ events = <<ErrorEvent(BlockedDomainMessage(<<"my", "facebook.com", ".example.org">>))>>
    /\ DOMAIN pages = {}

\* the progress events of the run so far, in order
ProgressEvents == SelectSeq(events, LAMBDA e : e.type = "progress")

\* C15: the completed count of successive progress events never decreases and
\* never exceeds the total; the total is the same in every progress event and
\* equals the number of discovered URLs; the k-th per-URL progress event
\* carries completed = k-1; the complete event carries that total
ProgressCountsConsistent ==
    LET p == ProgressEvents
        n == Len(p)
    IN  /\ \A i \in 1..n :
              /\ p[i].progress.total = Len(discoveredUrls)
              /\ p[i].progress.completed <= p[i].progress.total
              /\ i < n => p[i].progress.completed <= p[i + 1].progress.completed
        /\ n <= Len(discoveredUrls) + 1
        /\ \A k \in 1..(n - 1) :
              /\ p[k + 1].progress.completed = k - 1
              /\ p[k + 1].progress.current = discoveredUrls[k]
        /\ \A i \in 1..Len(events) :
              events[i].type = "complete" =>
                  /\ events[i].totalPages = Len(discoveredUrls)
                  /\ n = Len(discoveredUrls) + 1

\* a run over three URLs has completed although its second page failed
CountedPastFailedPage ==
    /\ pc = "done"
    /\ Len(discoveredUrls) = 3
    /\ events[Len(events)] = CompleteEvent(3)
    /\ events[5].type = "page" /\ events[5].page.status = "error"
    /\ events[6] = ProgressEvent(3, 2, discoveredUrls[3])

\* C16: once the client has cancelled the output stream the core stops
\* between fetch attempts: fetchWithRetry is not called for any remaining
\* queued or discovered URL, so no further page record comes to be stored
CancelStopsTheRun ==
    [][cancelled => ~(pc \in {"discover", "crawl"} /\ pc' = "fetch")]_vars

\* C17: at most one fetch is in flight at any time, and every fetch of the
\* discovery phase has finished before the first fetch of the crawl phase
\* starts
OneFetchAtATime ==
    /\ inFlight \in {0, 1}
    /\ inFlight = 1 <=> pc = "inflight"
    /\ pc = "fetch" => inFlight = 0
    /\ (inFlight = 1 /\ caller = "discover") => ~DiscoveryReturned
    /\ (inFlight = 1 /\ caller = "crawl") => DiscoveryReturned
    /\ (DiscoveryReturned /\ pc = "crawl") => inFlight = 0

\* the first fetch of the crawl phase is in flight, after a discovery of
\* several URLs in which a fetch failed
FirstCrawlFetchInFlight ==
    /\ pc = "inflight"
    /\ caller = "crawl"
    /\ index = 1
    /\ inFlight = 1
    /\ Len(discoveredUrls) >= 2
    /\ fetchFailed # {}

IsTerminal(e) == e.type \in {"complete", "error"}

\* C18: every run emits exactly one terminal event (complete or error), as
\* its last event, and never both a complete and an error event
ExactlyOneTerminalEvent ==
    /\ \A i \in 1..(Len(events) - 1) : ~IsTerminal(events[i])
    /\ pc # "done" => \A i \in 1..Len(events) : ~IsTerminal(events[i])
    /\ pc = "done" => /\ Len(events) >= 1
                      /\ IsTerminal(events[Len(events)])
    /\ ~(\E i, j \in 1..Len(events) :
            events[i].type = "complete" /\ events[j].type = "error")

\* a run over two URLs ended with the complete event alone although both of
\* its pages failed
CompletedOnceThoughEveryPageFailed ==
    /\ pc = "done"
    /\ Len(events) = 6
    /\ events[6] = CompleteEvent(2)
    /\ events[3].type = "page" /\ events[3].page.status = "error"
    /\ events[5].type = "page" /\ events[5].page.status = "error"

\* C19: if every fetch attempt eventually returns a response or fails, every
\* run terminates: every retry loop ends, discovery returns whatever the link
\* graph, and a terminal event is eventually emitted
RunTerminates ==
    /\ InFetchLoop ~> FetchSettled
    /\ (pc = "discover") ~> (pc \in {"crawl", "done"})
    /\ <>(/\ pc = "done"
          /\ Len(events) >= 1
          /\ IsTerminal(events[Len(events)]))

\* the run over the unbounded cyclic site has ended with the complete event
\* for the largest list discovery returns
UnboundedSiteRunEnded ==
    /\ world = "tree"
    /\ pc = "done"
    /\ Len(discoveredUrls) = MaxDiscovered
    /\ events[Len(events)] = CompleteEvent(MaxDiscovered)

\* the run has reported and stored a record for url
PageRecorded(url) ==
    \E k \in 1..Len(events) :
        /\ events[k].type = "page"
        /\ events[k].page.url = url
        /\ Stored(events[k].page)

\* C20: a URL dequeued and not yet visited is on the discovered list even
\* when its fetch fails on every attempt or answers with a non-ok status; it
\* then adds no links to the frontier, discovery goes on with the queued
\* URLs, and the URL is crawled later and gets a page record
FailedFetchStillDiscovered ==
    /\ [](/\ fetchFailed \subseteq Range(discoveredUrls)
          /\ (pc = "discover_got" /\ ~(fetchResult.type = "response"
                                       /\ fetchResult.response.ok)) =>
                 discoveredUrls[Len(discoveredUrls)] = currentUrl
          /\ (pc = "done" /\ DiscoveryReturned) =>
                 \A u \in fetchFailed : PageRecorded(u))
    /\ [][fetchFailed' # fetchFailed =>
             /\ urlsToVisit' = urlsToVisit
             /\ discoveredUrls' = discoveredUrls
             /\ pc' = "discover"]_vars

\* the second of three discovered URLs failed in discovery; the third was
\* found all the same and the failed one has its record
FailedUrlCrawledLater ==
    /\ pc = "done"
    /\ Len(discoveredUrls) = 3
    /\ discoveredUrls[2] \in fetchFailed
    /\ discoveredUrls[3] \notin fetchFailed
    /\ PageRecorded(discoveredUrls[2])

\* the scan of the seed's page left the frontier empty: the seed is the only
\* URL discovery has dequeued and nothing is queued behind it
SeedYieldedNoLinks ==
    /\ Len(discoveredUrls) = 1
    /\ urlsToVisit = <<>>
    /\ pc = "discover" \/ DiscoveryReturned

\* C21: a run on a seed whose page yields no accepted same-domain link
\* produces exactly one page record, for the seed, exactly one page event,
\* and a complete event with totalPages = 1
SeedWithoutLinksGivesOnePage ==
    SeedYieldedNoLinks =>
        /\ discoveredUrls = <<startUrl>>
        /\ Len(events) <= 4
        /\ DOMAIN pages \subseteq {0}
        /\ pc = "done" =>
              /\ DOMAIN pages = {0}
              /\ pages[0].url = startUrl
              /\ events = << ProgressEvent(1, 0, startUrl),
                             ProgressEvent(1, 0, startUrl),
                             PageEvent(pages[0]),
                             [type |-> "complete", totalPages |-> 1] >>

\* the seed's page was fetched and scanned in discovery, gave no link to
\* follow, and the run has ended with the seed's completed record
LinklessSeedRunEnded ==
    /\ pc = "done"
    /\ world = "any"
    /\ startUrl = SeedExample
    /\ discoveredUrls = <<SeedExample>>
    /\ fetchFailed = {}
    /\ 0 \in DOMAIN pages
    /\ pages[0].status = "completed"

\* discoverUrls is running
InDiscovery ==
    \/ pc \in {"discover", "discover_got"}
    \/ InFetchLoop /\ caller = "discover"

\* the frontier changes only by a shift at its head or a push at its tail
FrontierIsFifo ==
    urlsToVisit' # urlsToVisit =>
        \/ pc = "start"
        \/ /\ pc = "discover"
           /\ urlsToVisit' = Tail(urlsToVisit)
           /\ currentUrl' = Head(urlsToVisit)
        \/ /\ pc = "discover_got"
           /\ Len(urlsToVisit') > Len(urlsToVisit)
           /\ SubSeq(urlsToVisit', 1, Len(urlsToVisit)) = urlsToVisit

\* C22: discoverUrls visits breadth first: along the discovered sequence the
\* number of links followed from the seed never decreases, nothing queued is
\* nearer to the seed than what was discovered, and the frontier is consumed
\* first in, first out
BreadthFirstOrder ==
    /\ [](InDiscovery =>
            /\ \A i \in 1..(Len(discoveredUrls) - 1) :
                  hops[discoveredUrls[i]] <= hops[discoveredUrls[i + 1]]
            /\ \A i \in 1..(Len(urlsToVisit) - 1) :
                  hops[urlsToVisit[i]] <= hops[urlsToVisit[i + 1]]
            /\ (discoveredUrls # <<>> /\ urlsToVisit # <<>>) =>
                  hops[discoveredUrls[Len(discoveredUrls)]] <= hops[urlsToVisit[1]])
    /\ [][FrontierIsFifo]_vars

\* both children of the seed were discovered before its first grandchild
GrandchildAfterBothChildren ==
    /\ pc = "discover"
    /\ Len(discoveredUrls) >= 4
    /\ hops[discoveredUrls[2]] = 1
    /\ hops[discoveredUrls[3]] = 1
    /\ hops[discoveredUrls[4]] = 2

\* the step in which the page of currentUrl is scanned and its links queued
ScanStep == pc = "discover_got" /\ pc' = "discover" /\ budget' = budget

\* the URL the scan makes of the j-th anchor of the page
AnchorUrl(j) == AbsoluteUrl(scanned[j], startUrl, currentUrl)

\* the anchors of the page whose URL the scan accepts, by position
AcceptedAnchors ==
    {j \in 1..Len(scanned) :
        /\ AnchorUrl(j) # <<>>
        /\ AcceptLink(AnchorUrl(j), Hostname(startUrl), visitedUrls, urlsToVisit)}

\* the position of the k-th accepted anchor
KthAccepted(k) ==
    CHOOSE j \in AcceptedAnchors :
        Cardinality({i \in AcceptedAnchors : i <= j}) = k

\* C23: the scan of a page appends at most 10 URLs to the frontier: the first
\* 10 accepted links of the page, in the order of their anchors
FirstTenLinksQueuedInOrder ==
    [][ScanStep =>
          LET n == Min(10, Cardinality(AcceptedAnchors))
              old == Len(urlsToVisit)
          IN  /\ Len(urlsToVisit') = old + n
              /\ SubSeq(urlsToVisit', 1, old) = urlsToVisit
              /\ \A k \in 1..n : urlsToVisit'[old + k] = AnchorUrl(KthAccepted(k))]_vars

\* a page of eleven accepted anchors was scanned and its first ten are queued
ElevenAnchorsTenQueued ==
    /\ world = "scan"
    /\ pc = "discover"
    /\ scanned = LongPage
    /\ startUrl = SeedExample
    /\ urlsToVisit = [i \in 1..10 |-> <<"https:", "//", "example.com", "/", "a">>]

\* C24: every URL discoverUrls returns has exactly the seed's hostname, and
\* every one of them but the seed has no fragment marker and is no mailto:
\* or tel: URL
DiscoveredStayOnSite ==
    \A i \in 1..Len(discoveredUrls) :
        /\ discoveredUrls[i][1] \in {"http:", "https:"}
        /\ Hostname(discoveredUrls[i]) = Hostname(startUrl)
        /\ i > 1 => /\ "#" \notin Range(discoveredUrls[i])
                    /\ "mailto:" \notin Range(discoveredUrls[i])
                    /\ "tel:" \notin Range(discoveredUrls[i])

\* discovery has returned the seed and two pages it reached by links
TwoLinkedPagesReturned ==
    /\ world = "any"
    /\ pc = "crawl"
    /\ index = 1
    /\ discoveredUrls = << SeedExample,
                           <<"https:", "//", "example.com", "/", "b">>,
                           <<"https:", "//", "example.com", "/", "a">> >>

\* new URL(u).pathname of an http(s) URL: what lies between the authority and
\* the query or the fragment
Pathname(u) ==
    LET ends == {i \in AuthorityStop(u)..Len(u) : u[i] \in PathEnd}
        stop == IF ends = {} THEN Len(u) + 1
                ELSE CHOOSE i \in ends : \A j \in ends : i <= j
    IN  SubSeq(u, AuthorityStop(u), stop - 1)

\* C25: no link whose path ends in one of the listed non-HTML extensions, in
\* any letter case and with or without a query string behind the path, is
\* ever in the frontier
NoNonHtmlLinkQueued ==
    \A i \in 1..Len(urlsToVisit) :
        LET path == Pathname(urlsToVisit[i])
        IN  path # <<>> => LowerExt(path[Len(path)]) \notin NonHtmlExt

\* the URL the four rules make of an href: an absolute http or https URL as
\* it is, "//..." behind the seed's scheme, "/..." behind the seed's scheme
\* and host, anything else resolved against the page under scan
RuledUrl(href) ==
    IF href[1] \in {"http:", "https:"} THEN href
    ELSE IF href[1] = "//" THEN <<Protocol(startUrl)>> \o href
    ELSE IF href[1] = "/"
         THEN <<Protocol(startUrl), "//">> \o Hostname(startUrl) \o href
    ELSE ResolveRelative(href, currentUrl)

\* C26: each href is normalised by the first of the four rules that applies,
\* so the scan queues the ruled URL of every anchor it accepts, and nothing
\* else
LinksNormalisedByFirstRule ==
    [][(ScanStep /\ Len(scanned) <= 10) =>
          LET old == Len(urlsToVisit)
              added == {urlsToVisit'[i] : i \in (old + 1)..Len(urlsToVisit')}
              ruled == {RuledUrl(scanned[j]) : j \in 1..Len(scanned)}
          IN  added = {u \in ruled :
                          /\ u # <<>>
                          /\ AcceptLink(u, Hostname(startUrl), visitedUrls,
                                        urlsToVisit)}]_vars

\* crawlSinglePage has settled on a response with a non-ok status
PageSettledNotOk ==
    /\ pc = "page_settled"
    /\ fetchResult.type = "response"
    /\ ~fetchResult.response.ok

\* the fetch attempts of the current call of fetchWithRetry
FetchAttempts == SelectSeq(fetchLog, LAMBDA e : e.op = "fetch")

\* the record of the page is an error record whose message embeds the status
\* code and the status text of the response
RecordEmbedsStatus ==
    /\ outcome.kind = "return"
    /\ outcome.page.status = "error"
    /\ outcome.page.error = <<"HTTP ", fetchResult.response.status, ": ",
                              fetchResult.response.statusText>>

\* C27 as stated: when the fetch of crawlSinglePage returns a non-ok status,
\* exactly one fetch attempt has been made, and the record has status error
\* with a message that embeds the status code and text
NotOkAfterExactlyOneAttempt ==
    PageSettledNotOk => (Len(FetchAttempts) = 1 /\ RecordEmbedsStatus)

\* C27 amended: the non-ok response is not retried: it answers the last fetch
\* attempt of the call and nothing follows it; up to two attempts that failed
\* at network level may precede it; the record has status error with a
\* message that embeds the status code and text
NotOkResponseNotRetried ==
    PageSettledNotOk =>
        /\ Len(FetchAttempts) \in 1..CrawlRetries
        /\ Len(FetchAttempts) = attempt
        /\ fetchLog[Len(fetchLog)] = [op |-> "fetch", attempt |-> attempt]
        /\ responsesSeen = 1
        /\ RecordEmbedsStatus

\* a 404 that answered the second attempt has become the error record
NotFoundOnSecondAttemptRecorded ==
    /\ PageSettledNotOk
    /\ Len(FetchAttempts) = 2
    /\ outcome.page.error = <<"HTTP ", "404", ": ", "Not Found">>

\* the page events of the run so far, in order
PageEvents == SelectSeq(events, LAMBDA e : e.type = "page")

\* C28: each discovered URL causes exactly one storage write and exactly one
\* page event, in discovered order, so that at the complete event the number
\* of records written equals the number of discovered URLs and totalPages
OneRecordPerDiscoveredUrl ==
    LET pe == PageEvents
        n  == Len(pe)
    IN  /\ n <= Len(discoveredUrls)
        /\ \A k \in 1..n :
              /\ pe[k].page.url = discoveredUrls[k]
              /\ pe[k].page.id = k - 1
        /\ pc = "page_settled" =>
              /\ Len(outcome.writes) = 1
              /\ outcome.writes[1].url = discoveredUrls[n + 1]
        /\ Cardinality(DOMAIN pages) = IF pc = "page_settled" THEN n + 1 ELSE n
        /\ InCrawlLoop => n = IF pc = "pause" THEN index ELSE index - 1
        /\ (pc = "done" /\ DiscoveryReturned) =>
              /\ n = Len(discoveredUrls)
              /\ Cardinality(DOMAIN pages) = Len(discoveredUrls)
              /\ events[Len(events)].type = "complete"
              /\ events[Len(events)].totalPages = Len(discoveredUrls)

\* a run over three URLs has ended with three records, one of them an error
\* record, and a complete event that counts three
ThreeUrlsThreeRecords ==
    /\ pc = "done"
    /\ Len(discoveredUrls) = 3
    /\ DOMAIN pages = {0, 1, 2}
    /\ pages[1].status = "error"
    /\ pages[2].status = "completed"
    /\ events[Len(events)].totalPages = 3

\* C29: between the end of one page crawl and the start of the next lies the
\* one second pause: the page event of page i is followed by the pause, only
\* the end of a pause moves the loop to the next URL, and the crawl of a URL
\* starts only at the URL the loop is at
PauseBetweenPageCrawls ==
    [][/\ pc = "page_settled" => pc' \in {"page_settled", "pause"}
       /\ pc' = "pause" => (pc \in {"page_settled", "pause"}
                            /\ Len(events') = Len(events) + (IF pc = "pause" THEN 0 ELSE 1))
       /\ (index >= 1 /\ index' # index) =>
             (pc = "pause" /\ pc' = "crawl" /\ index' = index + 1)
       /\ (pc = "crawl" /\ pc' = "fetch") =>
             /\ fetchUrl' = discoveredUrls[index]
             /\ Len(PageEvents) = index - 1]_vars

\* the pause after the first page has elapsed and the crawl of the second
\* page is about to issue its first fetch
SecondCrawlStartsAfterPause ==
    /\ pc = "fetch"
    /\ caller = "crawl"
    /\ index = 2
    /\ fetchLog = <<>>
    /\ Len(PageEvents) = 1

\* C30: whenever discoverUrls returns, the list it returns is not empty, so
\* the "No URLs discovered" branch of crawlWebsite is never taken, and a run
\* aborts in discovery only on the deny-list or on an invalid seed URL
DiscoveryNeverReturnsEmpty ==
    /\ (pc = "discover" /\ ~(urlsToVisit # <<>> /\ Len(discoveredUrls) < 50)) =>
          Len(discoveredUrls) >= 1
    /\ InCrawlLoop => (Len(discoveredUrls) >= 1 /\ totalPages >= 1)
    /\ \A i \in 1..Len(events) :
          events[i].type = "error" =>
              /\ events[i].error # NoUrlsMessage
              /\ discoveredUrls = <<>>
              /\ ~anyFetch
              /\ \/ /\ startUrl = SeedInvalid
                    /\ events[i].error = <<"Invalid URL">>
                 \/ /\ startUrl \in BlockedSeeds
                    /\ events[i].error = BlockedDomainMessage(Hostname(startUrl))

\* the seed could not be fetched in discovery, and discoverUrls has returned
\* the list that holds the seed alone
UnreachableSeedStillReturned ==
    /\ pc = "crawl"
    /\ index = 1
    /\ discoveredUrls = <<startUrl>>
    /\ fetchFailed = {startUrl}
    /\ events = <<ProgressEvent(1, 0, startUrl)>>

\* crawlSinglePage has returned the completed record of the parsed document
ParsedPageCompleted ==
    /\ pc = "page_settled"
    /\ outcome.kind = "return"
    /\ outcome.page.status = "completed"

\* the values the title is taken from, in order: the trimmed text of <title>,
\* the trimmed text of the first <h1>, the content of the og:title meta tag,
\* the content of the title meta tag, the literal
TitleCandidates ==
    <<Trim(parsed.title), Trim(parsed.h1), parsed.ogTitle, parsed.metaTitle,
      <<"Untitled Page">>>>

\* C31: the title of a completed record is the first non-empty value among
\* the <title> text, the first <h1> text, the og:title content, the title
\* meta content and "Untitled Page", cut to its first 200 characters; it is
\* never empty and never longer than 200 characters, in the record returned
\* and in the record stored
TitleIsFirstNonEmptyCandidate ==
    ParsedPageCompleted =>
        LET first == CHOOSE k \in 1..5 :
                        /\ TitleCandidates[k] # <<>>
                        /\ \A j \in 1..(k - 1) : TitleCandidates[j] = <<>>
            value == TitleCandidates[first]
            title == outcome.page.title
        IN  /\ title = IF Len(value) > 200 THEN SubSeq(value, 1, 200) ELSE value
            /\ title # <<>>
            /\ TextLen(title) <= 200
            /\ pages[outcome.page.id].title = title

\* <title> and <h1> hold white space only, the og:title content has 201
\* characters, a title meta tag is present too: the title is the first 200
\* characters of the og:title content
LongOgTitleCut ==
    /\ ParsedPageCompleted
    /\ parsed.title = <<" ">>
    /\ parsed.h1 = <<" ", " ">>
    /\ Len(parsed.ogTitle) = 201
    /\ parsed.metaTitle = <<"m">>
    /\ outcome.page.title = [i \in 1..200 |-> "o"]

\* the positions of the parsed content where a fragment starts: a character
\* that is no terminator, at the start of the text or behind a terminator
FragmentStarts ==
    {a \in 1..Len(parsed.content) :
        /\ parsed.content[a] \notin Terminators
        /\ a = 1 \/ parsed.content[a - 1] \in Terminators}

\* the fragment that starts at position a: the characters up to the next
\* terminator or the end of the text
FragmentAt(a) ==
    LET c    == parsed.content
        last == CHOOSE b \in a..Len(c) :
                    /\ \A i \in a..b : c[i] \notin Terminators
                    /\ b = Len(c) \/ c[b + 1] \in Terminators
    IN  SubSeq(c, a, last)

\* the starts of the fragments whose trimmed length exceeds 20
QualifyingStarts == {a \in FragmentStarts : Len(Trim(FragmentAt(a))) > 20}

\* the k-th qualifying fragment in the order of the text
QualifyingFragment(k) ==
    FragmentAt(CHOOSE a \in QualifyingStarts :
                  Cardinality({x \in QualifyingStarts : x < a}) = k - 1)

\* the first three qualifying fragments joined with ". ", trimmed
JoinedFragments ==
    LET n == Cardinality(QualifyingStarts)
    IN  Trim(IF n = 0 THEN <<>>
             ELSE IF n = 1 THEN QualifyingFragment(1)
             ELSE IF n = 2
                  THEN QualifyingFragment(1) \o <<".", " ">>
                           \o QualifyingFragment(2)
                  ELSE QualifyingFragment(1) \o <<".", " ">>
                           \o QualifyingFragment(2) \o <<".", " ">>
                           \o QualifyingFragment(3))

\* C32: the summary of a completed record is made of the first three
\* fragments of the content (split on runs of . ! ?) whose trimmed length
\* exceeds 20, joined with ". ": when the joined text has at most 300
\* characters the summary is that text and one period, otherwise it is the
\* first 300 characters of that text and the ellipsis marker
SummaryOfFirstThreeFragments ==
    ParsedPageCompleted =>
        LET summary == outcome.page.summary
            n       == Len(summary)
        IN  /\ n >= 1
            /\ n - 1 <= 300
            /\ \A i \in 1..(n - 1) : summary[i] # "..."
            /\ IF Len(JoinedFragments) > 300
               THEN /\ summary[n] = "..."
                    /\ SubSeq(summary, 1, n - 1) = SubSeq(JoinedFragments, 1, 300)
               ELSE /\ summary[n] = "."
                    /\ SubSeq(summary, 1, n - 1) = JoinedFragments
            /\ pages[outcome.page.id].summary = summary

\* the content has four fragments longer than 20 characters, the first three
\* of 120 characters each: the summary is cut in the third fragment, 300
\* characters and the ellipsis marker, and nothing of the fourth is in it
LongSummaryCutWithEllipsis ==
    /\ ParsedPageCompleted
    /\ Cardinality(QualifyingStarts) = 4
    /\ Len(outcome.page.summary) = 301
    /\ outcome.page.summary[300] = "c"
    /\ outcome.page.summary[301] = "..."

\* the record the store holds for an id, Null when it holds none
Held(store, id) == IF id \in DOMAIN store THEN store[id] ELSE Null

\* C33: the storage calls keep last-write-wins per id. A put makes the given
\* record the one held for its id; a get changes nothing and returns the
\* record held, absent when there is none; an update of an id that is held
\* sets the given fields and keeps the others, and an update of an id that
\* is not held leaves the whole store unchanged; a delete makes the id
\* absent; and no call changes the record held for another id
StorageLastWriteWins ==
    [][LET call == storeCall'
       IN  /\ call.op \in {"put", "get", "update", "delete"}
           /\ \A i \in StoreIds \ {call.id} : Held(pages', i) = Held(pages, i)
           /\ DOMAIN pages' \subseteq StoreIds
           /\ call.op = "put" => Held(pages', call.id) = call.page
           /\ call.op = "get" =>
                 /\ pages' = pages
                 /\ call.result = Held(pages, call.id)
           /\ call.op = "update" =>
                 IF call.id \in DOMAIN pages
                 THEN LET old == pages[call.id]
                          new == Held(pages', call.id)
                      IN  /\ DOMAIN new = DOMAIN old \cup DOMAIN call.updates
                          /\ \A f \in DOMAIN call.updates :
                                new[f] = call.updates[f]
                          /\ \A f \in DOMAIN old \ DOMAIN call.updates :
                                new[f] = old[f]
                 ELSE pages' = pages
           /\ call.op = "delete" => Held(pages', call.id) = Null
      ]_vars

\* a record was put under id 0 and then updated twice; the get of id 0
\* returns the merged record while id 1 holds a record of its own
MergedRecordRead ==
    /\ storeCall.op = "get"
    /\ storeCall.id = 0
    /\ storeCall.result =
          [id |-> 0, url |-> SeedExample, title |-> <<"C">>,
           status |-> "error", error |-> <<"E">>]
    /\ 1 \in DOMAIN pages
    /\ pages[1].title = <<"B">>

\* C34: a re-crawl of a URL through the recrawl route, also while a crawl
\* run is in progress, stores its record under an id no record is stored
\* under, and every step of the run and of the route leaves each record
\* already stored in place and unchanged, the earlier records of the same
\* URL included
StoredRecordsNeverChange ==
    [][/\ \A id \in DOMAIN pages :
             id \in DOMAIN pages' /\ pages'[id] = pages[id]
       /\ (recrawl'.calls = recrawl.calls /\ recrawl'.pending # recrawl.pending) =>
             \E call \in recrawl.pending \ recrawl'.pending :
                /\ call.id \notin DOMAIN pages
                /\ DOMAIN pages' = DOMAIN pages \cup {call.id}
                /\ pages'[call.id].id = call.id
                /\ pages'[call.id].url = call.url
      ]_vars

\* the run has stored the record of the seed page and is not over, both
\* re-crawls of the seed URL have returned: three records of the same URL
\* under three ids
SameUrlStoredThreeTimes ==
    /\ pc = "pause"
    /\ index = 1
    /\ recrawl.calls = 2
    /\ recrawl.pending = {}
    /\ Cardinality(DOMAIN pages) = 3
    /\ \A id \in DOMAIN pages : pages[id].url = SeedExample /\ pages[id].id = id

\* the step hands an event to onProgress, which the crawl route passes to
\* controller.enqueue
EnqueueCalled == events' # events

\* the step ends crawlWebsite: its promise settles and the crawl route calls
\* controller.close
CloseCalled == pc # "done" /\ pc' = "done"

\* C35: the crawl route calls neither enqueue nor close on the stream
\* controller once the stream has been cancelled
NoControllerCallAfterCancel ==
    [][cancelled => (~EnqueueCalled /\ ~CloseCalled)]_vars

====
